---------------------------- MODULE Spec2Model ----------------------------
(***************************************************************************)
(* The natural-language command pipeline of the restaurant POS backend    *)
(* (apps/ai): Parse (pattern matcher, fallback classifier, intent router, *)
(* action handlers, message log), Confirm and Cancel.                     *)
(*                                                                         *)
(* Conventions of the model                                                *)
(*   - a Python str is a sequence of one-character strings;                *)
(*   - a Python dict is a function whose domain is a set of key strings;   *)
(*   - money and every other decimal number is a fixed-point integer in    *)
(*     units of 1/Scale;                                                   *)
(*   - an uncaught Python exception is the outcome [raised |-> name].      *)
(***************************************************************************)
EXTENDS Integers, Sequences, FiniteSets, TLC

VARIABLES
    menu_items,      \* table menu_items: item id -> row
    conversations,   \* table ai_conversations: sequence of rows, in creation order
    messages,        \* table ai_messages: sequence of rows, in creation order
    orders,          \* table orders: set of rows
    order_items,     \* table order_items: set of rows
    invoices,        \* table invoices: set of rows
    payments,        \* table payments: sequence of rows, in creation order
    recording,       \* worker -> the record-payment request it is serving, if any
    actions,         \* table ai_actions: set of rows
    confirming,      \* the Confirm request whose loop is running, if one is
    last             \* the last request served and what it returned

vars == <<menu_items, conversations, messages, orders, order_items, invoices,
          payments, recording, actions, confirming, last>>
sales == <<orders, order_items, invoices, payments, recording>>

(***************************************************************************)
(* Bounds of the model.                                                    *)
(***************************************************************************)
MaxMessages == 4        \* rows of ai_messages the model lets the log grow to
MaxConversations == 2   \* rows of ai_conversations
MaxPatternRows == 3     \* rows of ai_messages under SpecPatterns
MaxSalesRows == 2       \* rows of ai_messages under SpecSales
MaxChanges == 2         \* entries of one Confirm change list

(***************************************************************************)
(* Fixed-point numbers.  DecimalField(max_digits=10, decimal_places=2)     *)
(* columns hold multiples of Cent; a percentage of a price, price * value  *)
(* / 100 with two decimals each, is exact in units of 1/Scale.  float() of *)
(* such a number and Decimal(str()) of that float give the number back, so *)
(* the model keeps one representation for float and Decimal.               *)
(***************************************************************************)
DecimalPlaces == 2
Scale == (10 ^ DecimalPlaces) * (10 ^ DecimalPlaces) * 100
Cent == Scale \div (10 ^ DecimalPlaces)
Rupees(n) == n * Scale

----------------------------------------------------------------------------
(***************************************************************************)
(* Python str operations used by the code.                                 *)
(***************************************************************************)
Whitespace == {" ", "\t", "\n"}
Digits == {"0", "1", "2", "3", "4", "5", "6", "7", "8", "9"}

UpperCase == <<"A", "B", "C", "D", "E", "F", "G", "H", "I", "J", "K", "L", "M",
               "N", "O", "P", "Q", "R", "S", "T", "U", "V", "W", "X", "Y", "Z">>
LowerCase == <<"a", "b", "c", "d", "e", "f", "g", "h", "i", "j", "k", "l", "m",
               "n", "o", "p", "q", "r", "s", "t", "u", "v", "w", "x", "y", "z">>

\* str.lower() on one character
LowerChar(c) ==
    IF \E k \in 1..Len(UpperCase) : UpperCase[k] = c
    THEN LowerCase[CHOOSE k \in 1..Len(UpperCase) : UpperCase[k] = c]
    ELSE c

\* str.lower()
lower(s) == [k \in 1..Len(s) |-> LowerChar(s[k])]

\* str.strip()
strip(s) ==
    LET keep == {k \in 1..Len(s) : s[k] \notin Whitespace}
    IN  IF keep = {} THEN <<>>
        ELSE LET lo == CHOOSE k \in keep : \A j \in keep : k <= j
                 hi == CHOOSE k \in keep : \A j \in keep : k >= j
             IN  SubSeq(s, lo, hi)

\* `sub in s` for two str values
Contains(s, sub) ==
    \E i \in 0..(Len(s) - Len(sub)) : SubSeq(s, i + 1, i + Len(sub)) = sub

\* the SQL operator behind name__icontains: a case-insensitive substring test
icontains(s, sub) == Contains(lower(s), lower(sub))

----------------------------------------------------------------------------
(***************************************************************************)
(* Python's re module, as far as QUICK_PATTERNS uses it: a backtracking    *)
(* matcher.  Match(r, s, st) is the sequence of all ways r matches s from  *)
(* the state st, in the order the backtracking engine tries them; the      *)
(* engine answers with the first.  A state is a position and the spans of  *)
(* the capture groups set so far.                                          *)
(***************************************************************************)
Ch(c) == [t |-> "ch", c |-> c]                       \* a literal character
Cls(k) == [t |-> "cls", k |-> k]                     \* \s, \d or .
Cat(rs) == [t |-> "cat", rs |-> rs]                  \* r1 r2 ... rn
Alt(rs) == [t |-> "alt", rs |-> rs]                  \* r1|r2|...|rn
Rep(r, lo, hi, greedy) ==                            \* r{lo,hi}; hi = -1: no limit
    [t |-> "rep", r |-> r, lo |-> lo, hi |-> hi, greedy |-> greedy]
Grp(n, r) == [t |-> "grp", n |-> n, r |-> r]         \* capture group n
Bol == [t |-> "bol"]                                 \* ^

Lit(s) == Cat([k \in 1..Len(s) |-> Ch(s[k])])        \* a literal word
Plus(r) == Rep(r, 1, -1, TRUE)                       \* r+
Star(r) == Rep(r, 0, -1, TRUE)                       \* r*
LazyPlus(r) == Rep(r, 1, -1, FALSE)                  \* r+?
Opt(r) == Rep(r, 0, 1, TRUE)                         \* r?
Space == Cls("s")                                    \* \s
Digit == Cls("d")                                    \* \d
Dot == Cls("any")                                    \* .

NGroups == 3
NoSpan == [set |-> FALSE, b |-> 0, e |-> 0]
NoCaps == [n \in 1..NGroups |-> NoSpan]

InClass(k, c) ==
    CASE k = "s" -> c \in Whitespace
      [] k = "d" -> c \in Digits
      [] k = "any" -> c # "\n"

RECURSIVE Match(_, _, _)
RECURSIVE MatchCat(_, _, _, _)
RECURSIVE ThenCat(_, _, _, _, _)
RECURSIVE MatchAlt(_, _, _, _)
RECURSIVE MatchRep(_, _, _, _)
RECURSIVE ThenRep(_, _, _, _, _, _)

\* rs[k..] matched from each state of sts[j..], in order
ThenCat(rs, k, s, sts, j) ==
    IF j > Len(sts) THEN <<>>
    ELSE MatchCat(rs, k, s, sts[j]) \o ThenCat(rs, k, s, sts, j + 1)

MatchCat(rs, k, s, st) ==
    IF k > Len(rs) THEN <<st>>
    ELSE ThenCat(rs, k + 1, s, Match(rs[k], s, st), 1)

MatchAlt(rs, k, s, st) ==
    IF k > Len(rs) THEN <<>>
    ELSE Match(rs[k], s, st) \o MatchAlt(rs, k + 1, s, st)

\* further iterations of r from each state of sts[j..] that consumed input
ThenRep(r, s, from, count, sts, j) ==
    IF j > Len(sts) THEN <<>>
    ELSE (IF sts[j].pos > from THEN MatchRep(r, s, sts[j], count) ELSE <<>>)
         \o ThenRep(r, s, from, count, sts, j + 1)

\* count iterations of r.r are done; greedy tries one more first, lazy stops first
MatchRep(r, s, st, count) ==
    LET stop == IF count >= r.lo THEN <<st>> ELSE <<>>
        more == IF r.hi = -1 \/ count < r.hi
                THEN ThenRep(r, s, st.pos, count + 1, Match(r.r, s, st), 1)
                ELSE <<>>
    IN  IF r.greedy THEN more \o stop ELSE stop \o more

Match(r, s, st) ==
    CASE r.t = "ch" ->
           IF st.pos < Len(s) /\ s[st.pos + 1] = r.c
           THEN <<[st EXCEPT !.pos = @ + 1]>> ELSE <<>>
      [] r.t = "cls" ->
           IF st.pos < Len(s) /\ InClass(r.k, s[st.pos + 1])
           THEN <<[st EXCEPT !.pos = @ + 1]>> ELSE <<>>
      [] r.t = "bol" -> IF st.pos = 0 THEN <<st>> ELSE <<>>
      [] r.t = "cat" -> MatchCat(r.rs, 1, s, st)
      [] r.t = "alt" -> MatchAlt(r.rs, 1, s, st)
      [] r.t = "rep" -> MatchRep(r, s, st, 0)
      [] r.t = "grp" ->
           LET inner == Match(r.r, s, st)
           IN  [j \in 1..Len(inner) |->
                   [inner[j] EXCEPT !.caps[r.n] =
                       [set |-> TRUE, b |-> st.pos, e |-> inner[j].pos]]]

NoMatch == [matched |-> FALSE, caps |-> NoCaps]

\* re.search(pattern, s): the leftmost start that matches, and the first match there
RECURSIVE SearchFrom(_, _, _)
SearchFrom(r, s, start) ==
    IF start > Len(s) THEN NoMatch
    ELSE LET found == Match(r, s, [pos |-> start, caps |-> NoCaps])
         IN  IF found # <<>>
             THEN [matched |-> TRUE, caps |-> found[1].caps]
             ELSE SearchFrom(r, s, start + 1)

re_search(r, s) == SearchFrom(r, s, 0)

\* m.group(n): the captured text, or None (here: the empty text with set = FALSE)
group(m, s, n) ==
    IF m.caps[n].set THEN SubSeq(s, m.caps[n].b + 1, m.caps[n].e) ELSE <<>>

----------------------------------------------------------------------------
(***************************************************************************)
(* services.py: the intent constants and the quick patterns.               *)
(***************************************************************************)
INTENTS == {"MENU_PRICE_UPDATE", "MENU_AVAILABILITY_TOGGLE", "SALES_QUERY_TODAY",
            "TOP_SELLERS", "TABLE_LIST", "MENU_SEARCH", "GREETING", "HELP",
            "UNKNOWN"}

\* Python's None, and Python's {}
None == [py_none |-> TRUE]
EmptyDict == <<>>

\* a JSON value that is no object (a list), and the test for a dict
NotADict == [py_type |-> "list"]
IsDict(v) == "py_type" \notin DOMAIN v

\* d.get(key, default) on a dict
Get(d, key, default) == IF key \in DOMAIN d THEN d[key] ELSE default

\* 86\s+(?:the\s+)?(.+)
Pattern86 ==
    Cat(<<Lit(<<"8", "6">>), Plus(Space), Opt(Cat(<<Lit(<<"t", "h", "e">>), Plus(Space)>>)), Grp(1, Plus(Dot))>>)

\* (?:mark|make)\s+(.+?)\s+(?:available|back)
PatternMarkAvailable ==
    Cat(<<Alt(<<Lit(<<"m", "a", "r", "k">>),
             Lit(<<"m", "a", "k", "e">>)>>),
          Plus(Space), Grp(1, LazyPlus(Dot)), Plus(Space),
          Alt(<<Lit(<<"a", "v", "a", "i", "l", "a", "b", "l", "e">>),
             Lit(<<"b", "a", "c", "k">>)>>)>>)

\* \s+(.+?)\s+(?:by|to)\s+(?:rupee|rs\.?|inr)?\s*(\d+(?:\.\d+)?)\s*(%)?
\* (rupee stands for the rupee sign U+20B9), the part the two price patterns share
PriceTail ==
    <<Plus(Space), Grp(1, LazyPlus(Dot)), Plus(Space),
      Alt(<<Lit(<<"b", "y">>),
             Lit(<<"t", "o">>)>>),
      Plus(Space),
      Opt(Alt(<<Ch("₹"),
                Cat(<<Lit(<<"r", "s">>), Opt(Ch("."))>>),
                Lit(<<"i", "n", "r">>)>>)),
      Star(Space),
      Grp(2, Cat(<<Plus(Digit), Opt(Cat(<<Ch("."), Plus(Digit)>>))>>)),
      Star(Space),
      Opt(Grp(3, Ch("%")))>>

\* (?:increase|raise|up) followed by PriceTail
PatternIncrease ==
    Cat(<<Alt(<<Lit(<<"i", "n", "c", "r", "e", "a", "s", "e">>),
             Lit(<<"r", "a", "i", "s", "e">>),
             Lit(<<"u", "p">>)>>)>>
        \o PriceTail)

\* (?:decrease|reduce|lower|drop) followed by PriceTail
PatternDecrease ==
    Cat(<<Alt(<<Lit(<<"d", "e", "c", "r", "e", "a", "s", "e">>),
             Lit(<<"r", "e", "d", "u", "c", "e">>),
             Lit(<<"l", "o", "w", "e", "r">>),
             Lit(<<"d", "r", "o", "p">>)>>)>>
        \o PriceTail)

\* (?:how\'?s?\s+)?(?:today|sales|revenue|business)
PatternSales ==
    Cat(<<Opt(Cat(<<Lit(<<"h", "o", "w">>), Opt(Ch("'")), Opt(Ch("s")), Plus(Space)>>)),
          Alt(<<Lit(<<"t", "o", "d", "a", "y">>),
             Lit(<<"s", "a", "l", "e", "s">>),
             Lit(<<"r", "e", "v", "e", "n", "u", "e">>),
             Lit(<<"b", "u", "s", "i", "n", "e", "s", "s">>)>>)>>)

\* (?:top|best)\s*(?:seller|selling|item)
PatternTopSellers ==
    Cat(<<Alt(<<Lit(<<"t", "o", "p">>),
             Lit(<<"b", "e", "s", "t">>)>>),
          Star(Space),
          Alt(<<Lit(<<"s", "e", "l", "l", "e", "r">>),
             Lit(<<"s", "e", "l", "l", "i", "n", "g">>),
             Lit(<<"i", "t", "e", "m">>)>>)>>)

\* ^(?:hi|hello|hey|good\s+(?:morning|afternoon|evening))
PatternGreeting ==
    Cat(<<Bol,
          Alt(<<Lit(<<"h", "i">>), Lit(<<"h", "e", "l", "l", "o">>), Lit(<<"h", "e", "y">>),
                Cat(<<Lit(<<"g", "o", "o", "d">>), Plus(Space),
                      Alt(<<Lit(<<"m", "o", "r", "n", "i", "n", "g">>),
             Lit(<<"a", "f", "t", "e", "r", "n", "o", "o", "n">>),
             Lit(<<"e", "v", "e", "n", "i", "n", "g">>)>>)>>)>>)>>)

\* ^(?:help|what\s+can\s+you\s+do|\?)
PatternHelp ==
    Cat(<<Bol,
          Alt(<<Lit(<<"h", "e", "l", "p">>),
                Cat(<<Lit(<<"w", "h", "a", "t">>), Plus(Space), Lit(<<"c", "a", "n">>), Plus(Space),
                      Lit(<<"y", "o", "u">>), Plus(Space), Lit(<<"d", "o">>)>>),
                Ch("?")>>)>>)

\* QUICK_PATTERNS: (pattern, intent, extractor), in the order of the source
QUICK_PATTERNS ==
    <<[pattern |-> Pattern86, intent |-> "MENU_AVAILABILITY_TOGGLE",
       extractor |-> "unavailable"],
      [pattern |-> PatternMarkAvailable, intent |-> "MENU_AVAILABILITY_TOGGLE",
       extractor |-> "available"],
      [pattern |-> PatternIncrease, intent |-> "MENU_PRICE_UPDATE",
       extractor |-> "INCREMENT"],
      [pattern |-> PatternDecrease, intent |-> "MENU_PRICE_UPDATE",
       extractor |-> "DECREMENT"],
      [pattern |-> PatternSales, intent |-> "SALES_QUERY_TODAY",
       extractor |-> "none"],
      [pattern |-> PatternTopSellers, intent |-> "TOP_SELLERS",
       extractor |-> "none"],
      [pattern |-> PatternGreeting, intent |-> "GREETING", extractor |-> "none"],
      [pattern |-> PatternHelp, intent |-> "HELP", extractor |-> "none"]>>

\* int() of one digit
DigitValue(c) ==
    CASE c = "0" -> 0 [] c = "1" -> 1 [] c = "2" -> 2 [] c = "3" -> 3 [] c = "4" -> 4
      [] c = "5" -> 5 [] c = "6" -> 6 [] c = "7" -> 7 [] c = "8" -> 8 [] c = "9" -> 9

RECURSIVE DigitsValue(_)
DigitsValue(ds) ==
    IF ds = <<>> THEN 0
    ELSE 10 * DigitsValue(SubSeq(ds, 1, Len(ds) - 1)) + DigitValue(ds[Len(ds)])

\* float(text) for text matching \d+(?:\.\d+)?, as a fixed-point number; digits
\* after the second decimal are below the resolution of the model
float(text) ==
    LET dots == {k \in 1..Len(text) : text[k] = "."}
        dot == IF dots = {} THEN Len(text) + 1 ELSE CHOOSE k \in dots : TRUE
        whole == SubSeq(text, 1, dot - 1)
        frac == SubSeq(SubSeq(text, dot + 1, Len(text)) \o <<"0", "0">>, 1, 2)
    IN  DigitsValue(whole) * Scale + DigitsValue(frac)

\* the lambda m: {...} of a pattern, applied to the match m of the text s
Extract(extractor, m, s) ==
    CASE extractor = "unavailable" ->
           [items |-> <<strip(group(m, s, 1))>>, available |-> FALSE]
      [] extractor = "available" ->
           [items |-> <<strip(group(m, s, 1))>>, available |-> TRUE]
      [] extractor \in {"INCREMENT", "DECREMENT"} ->
           [target |-> strip(group(m, s, 1)), modifier |-> extractor,
            value |-> float(group(m, s, 2)), is_percentage |-> m.caps[3].set]
      [] extractor = "none" -> EmptyDict

\* a loop in which a later pattern that matches overrides an earlier one
MatchFromPattern_last_wins(k, message_lower) ==
    LET hits == {j \in k..Len(QUICK_PATTERNS) :
                    re_search(QUICK_PATTERNS[j].pattern, message_lower).matched}
        j == CHOOSE j \in hits : \A i \in hits : i <= j
    IN  IF hits = {} THEN None
        ELSE [intent |-> QUICK_PATTERNS[j].intent,
              entities |-> Extract(QUICK_PATTERNS[j].extractor,
                                   re_search(QUICK_PATTERNS[j].pattern, message_lower),
                                   message_lower),
              confidence |-> Scale]

\* the loop of match_quick_pattern from pattern k on
RECURSIVE MatchFromPattern(_, _)
MatchFromPattern(k, message_lower) ==
    IF k > Len(QUICK_PATTERNS) THEN None
    ELSE LET match == re_search(QUICK_PATTERNS[k].pattern, message_lower)
         IN  IF match.matched
             THEN [intent |-> QUICK_PATTERNS[k].intent,
                   entities |-> Extract(QUICK_PATTERNS[k].extractor, match,
                                        message_lower),
                   confidence |-> Scale]
             ELSE MatchFromPattern(k + 1, message_lower)

match_quick_pattern(message) == MatchFromPattern(1, strip(lower(message)))

----------------------------------------------------------------------------
(***************************************************************************)
(* The tenants and the catalog the model starts from.                      *)
(***************************************************************************)
Restaurants == {"r1", "r2"}
Users == {"u1", "u2"}

\* request.user.restaurant
restaurant_of(user) == IF user = "u1" THEN "r1" ELSE "r2"

\* table categories (not written by any operation of the model)
categories ==
    [c \in {"c1", "c2"} |->
        IF c = "c1" THEN [restaurant |-> "r1", name |-> <<"D", "r", "i", "n", "k", "s">>]
        ELSE [restaurant |-> "r2", name |-> <<"B", "a", "r">>]]

ItemIdSeq == <<"i1", "i2", "i3">>
ItemIds == {ItemIdSeq[k] : k \in 1..Len(ItemIdSeq)}

InitialMenu ==
    [i \in ItemIds |->
        CASE i = "i1" -> [restaurant |-> "r1", category |-> "c1", name |-> <<"L", "a", "s", "s", "i">>,
                          base_price |-> Rupees(200), is_available |-> TRUE,
                          display_order |-> 0]
          [] i = "i2" -> [restaurant |-> "r1", category |-> "c1", name |-> <<"C", "h", "a", "i">>,
                          base_price |-> Rupees(15), is_available |-> TRUE,
                          display_order |-> 0]
          [] i = "i3" -> [restaurant |-> "r2", category |-> "c2", name |-> <<"L", "a", "s", "s", "i">>,
                          base_price |-> Rupees(50), is_available |-> TRUE,
                          display_order |-> 0]]

(***************************************************************************)
(* Ordering of rows: Meta.ordering = ['display_order', 'name'] of MenuItem. *)
(* Text is compared character by character in the order of Alphabet; rows  *)
(* equal in both keys come in the order of ItemIdSeq.                      *)
(***************************************************************************)
Alphabet == <<" ">> \o UpperCase \o LowerCase

Rank(c) ==
    IF \E k \in 1..Len(Alphabet) : Alphabet[k] = c
    THEN CHOOSE k \in 1..Len(Alphabet) : Alphabet[k] = c
    ELSE 0

RECURSIVE TextLess(_, _)
TextLess(a, b) ==
    IF b = <<>> THEN FALSE
    ELSE IF a = <<>> THEN TRUE
    ELSE IF Rank(a[1]) # Rank(b[1]) THEN Rank(a[1]) < Rank(b[1])
    ELSE TextLess(Tail(a), Tail(b))

IdRank(i) == CHOOSE k \in 1..Len(ItemIdSeq) : ItemIdSeq[k] = i

Before(menu, i, j) ==
    \/ menu[i].display_order < menu[j].display_order
    \/ /\ menu[i].display_order = menu[j].display_order
       /\ TextLess(menu[i].name, menu[j].name)
    \/ /\ menu[i].display_order = menu[j].display_order
       /\ menu[i].name = menu[j].name
       /\ IdRank(i) < IdRank(j)

\* the rows ids of a MenuItem queryset in the order the queryset yields them
RECURSIVE Ordered(_, _)
Ordered(menu, ids) ==
    IF ids = {} THEN <<>>
    ELSE LET first == CHOOSE i \in ids : \A j \in ids \ {i} : Before(menu, i, j)
         IN  <<first>> \o Ordered(menu, ids \ {first})

\* Sum of f over the set S (the aggregate Sum, and len/count by f = 1)
RECURSIVE SumOver(_, _)
SumOver(f, S) ==
    IF S = {} THEN 0
    ELSE LET x == CHOOSE x \in S : TRUE
         IN  f[x] + SumOver(f, S \ {x})

Min(a, b) == IF a <= b THEN a ELSE b
Max(a, b) == IF a >= b THEN a ELSE b

\* numer / denom rounded to an integer, ties to even (Decimal's ROUND_HALF_EVEN),
\* for numer >= 0 and denom > 0
RoundHalfEven(numer, denom) ==
    LET q == numer \div denom
        r == numer % denom
    IN  IF 2 * r < denom THEN q
        ELSE IF 2 * r > denom THEN q + 1
        ELSE IF q % 2 = 0 THEN q ELSE q + 1

----------------------------------------------------------------------------
(***************************************************************************)
(* services.py: the handlers.  A handler reads the tables and yields an    *)
(* outcome: the dict it returns (or the exception it raises) and the       *)
(* menu_items table as it leaves it.  A message built by an f-string is    *)
(* the record of its template and of the values interpolated.              *)
(***************************************************************************)
Returned(response, menu) ==
    [raised |-> "", response |-> response, menu_items |-> menu]
Raised(exception, menu) ==
    [raised |-> exception, response |-> EmptyDict, menu_items |-> menu]

\* the names bound in the module namespace of services.py (its imports and
\* its top-level definitions); a function body looks a free name up here
ModuleGlobals ==
    {"re", "json", "Decimal", "settings", "Sum", "Count", "timezone", "MenuItem",
     "Category", "Order", "Invoice", "AIConversation", "AIMessage", "AIAction",
     "INTENTS", "QUICK_PATTERNS", "match_quick_pattern", "parse_with_gemini",
     "AIService"}

\* a filter over the names alone, of every restaurant
ToggleMatches_any_restaurant(restaurant, items) ==
    {i \in DOMAIN menu_items :
        \E k \in 1..Len(items) : icontains(menu_items[i].name, items[k])}

\* MenuItem.objects.filter(restaurant=...).filter(OR of name__icontains)
ToggleMatches(restaurant, items) ==
    {i \in DOMAIN menu_items :
        /\ menu_items[i].restaurant = restaurant
        /\ \E k \in 1..Len(items) : icontains(menu_items[i].name, items[k])}

\* a toggle that inverts the flag of the matched rows
SetAvailability_inverting(ids, available) ==
    [i \in DOMAIN menu_items |->
        IF i \in ids THEN [menu_items[i] EXCEPT !.is_available = ~@]
        ELSE menu_items[i]]

\* queryset.update(is_available=available)
SetAvailability(ids, available) ==
    [i \in DOMAIN menu_items |->
        IF i \in ids THEN [menu_items[i] EXCEPT !.is_available = available]
        ELSE menu_items[i]]

_handle_availability_toggle(restaurant, entities) ==
    LET items == Get(entities, "items", <<>>)
        available == Get(entities, "available", FALSE)
        updated_items == ToggleMatches(restaurant, items)
        updated == SetAvailability(updated_items, available)
        count == Cardinality(updated_items)
        rows == Ordered(updated, updated_items)
        item_names == [k \in 1..Len(rows) |-> updated[rows[k]].name]
    IN  IF ~IsDict(entities)
        THEN \* entities.get: a list has no attribute get
             Raised("AttributeError", menu_items)
        ELSE IF items = <<>>
        THEN Returned([message |-> [template |-> "Which items would you like to update?"],
                       intent |-> "MENU_AVAILABILITY_TOGGLE",
                       requires_confirmation |-> FALSE], menu_items)
        ELSE Returned([message |->
                           [template |-> "Done! {count} item(s) now {action}: {item_names}",
                            count |-> count,
                            action |-> IF available THEN "available"
                                       ELSE "86'd (unavailable)",
                            item_names |-> item_names],
                       intent |-> "MENU_AVAILABILITY_TOGGLE",
                       requires_confirmation |-> FALSE], updated)

PreviewLimit == 10

\* the filter of _handle_price_update: name or category name contains target
PriceMatches(restaurant, target) ==
    {i \in DOMAIN menu_items :
        /\ menu_items[i].restaurant = restaurant
        /\ \/ icontains(menu_items[i].name, target)
           \/ icontains(categories[menu_items[i].category].name, target)}

\* new_price of one item, before the clamp; old * (1 +- value / 100) is exact
\* in units of 1/Scale for a price and a value of two decimals
NewPrice(old_price, modifier, value, is_percentage) ==
    IF modifier = "INCREMENT"
    THEN IF is_percentage
         THEN (old_price * (100 * Scale + value)) \div (100 * Scale)
         ELSE old_price + value
    ELSE IF is_percentage
         THEN (old_price * (100 * Scale - value)) \div (100 * Scale)
         ELSE old_price - value

\* a price handler that writes the prices it proposes
_handle_price_update_applying(restaurant, entities) ==
    LET target == Get(entities, "target", <<>>)
        items == PriceMatches(restaurant, target)
        priced ==
            [i \in DOMAIN menu_items |->
                IF i \in items
                THEN [menu_items[i] EXCEPT
                         !.base_price =
                             Max(0, NewPrice(@, Get(entities, "modifier", "INCREMENT"),
                                             Get(entities, "value", 0),
                                             Get(entities, "is_percentage", FALSE)))]
                ELSE menu_items[i]]
    IN  Returned([message |-> [template |-> "Updated {count} item(s).",
                               count |-> Cardinality(items)],
                  intent |-> "MENU_PRICE_UPDATE",
                  requires_confirmation |-> FALSE], priced)

_handle_price_update(restaurant, entities) ==
    LET target == Get(entities, "target", <<>>)
        modifier == Get(entities, "modifier", "INCREMENT")
        value == Get(entities, "value", 0)
        is_percentage == Get(entities, "is_percentage", FALSE)
        items == PriceMatches(restaurant, target)
        rows == Ordered(menu_items, items)
        shown == SubSeq(rows, 1, Min(PreviewLimit, Len(rows)))
        changes ==
            [k \in 1..Len(shown) |->
                [itemId |-> shown[k],
                 itemName |-> menu_items[shown[k]].name,
                 oldPrice |-> menu_items[shown[k]].base_price,
                 newPrice |-> Max(0, NewPrice(menu_items[shown[k]].base_price,
                                              modifier, value, is_percentage))]]
    IN  IF ~IsDict(entities)
        THEN Raised("AttributeError", menu_items)
        ELSE IF "Q" \notin ModuleGlobals
        THEN Raised("NameError", menu_items)
        ELSE IF items = {}
        THEN Returned([message |-> [template |-> "Couldn't find items matching '{target}'.",
                                    target |-> target],
                       intent |-> "MENU_PRICE_UPDATE",
                       requires_confirmation |-> FALSE], menu_items)
        ELSE Returned([message |->
                           [template |-> "Found {count} item(s) matching '{target}'. Ready to {action} by {change_text}:",
                            count |-> Cardinality(items),
                            target |-> target,
                            action |-> IF modifier = "INCREMENT" THEN "increase"
                                       ELSE "decrease",
                            value |-> value,
                            is_percentage |-> is_percentage],
                       intent |-> "MENU_PRICE_UPDATE",
                       requires_confirmation |-> TRUE,
                       preview |-> [type |-> "PRICE_UPDATE", changes |-> changes]],
                      menu_items)

\* "morning" if hour < 12 else "afternoon" if hour < 17 else "evening"
DayPart(hour) ==
    IF hour < 12 THEN "morning" ELSE IF hour < 17 THEN "afternoon" ELSE "evening"

\* a filter that also lets the orders just placed through
SERVED_OR_COMPLETED_or_placed == {"COMPLETED", "SERVED", "PLACED"}

\* status__in=['COMPLETED', 'SERVED']
SERVED_OR_COMPLETED == {"COMPLETED", "SERVED"}

\* an average that falls back to the revenue when there is no order
AvgTicket_or_revenue(total_revenue, total_orders) ==
    IF total_orders > 0
    THEN RoundHalfEven(total_revenue, total_orders * Cent) * Cent
    ELSE total_revenue

\* total_revenue / total_orders if total_orders > 0 else 0, as
\* {avg_ticket:.2f} prints it
AvgTicket(total_revenue, total_orders) ==
    IF total_orders > 0
    THEN RoundHalfEven(total_revenue, total_orders * Cent) * Cent
    ELSE 0

_handle_sales_query(restaurant, entities, hour) ==
    LET paid == {v \in invoices :
                    v.restaurant = restaurant /\ v.today /\ v.status = "PAID"}
        done == {o \in orders :
                    o.restaurant = restaurant /\ o.today
                    /\ o.status \in SERVED_OR_COMPLETED}
        total_revenue == SumOver([v \in paid |-> v.total_amount], paid)
        total_orders == Cardinality(done)
        total_covers == SumOver([o \in done |-> o.covers], done)
        avg_ticket == AvgTicket(total_revenue, total_orders)
    IN  Returned([message |->
                      [template |-> "Here's your {greeting} update: Revenue, Orders, Covers, Avg Ticket",
                       greeting |-> DayPart(hour),
                       total_revenue |-> total_revenue,
                       total_orders |-> total_orders,
                       total_covers |-> total_covers,
                       avg_ticket |-> avg_ticket],
                  intent |-> "SALES_QUERY_TODAY",
                  requires_confirmation |-> FALSE], menu_items)

TopLimit == 5

\* all orders of the elements of the set S
RECURSIVE Orderings(_)
Orderings(S) ==
    IF S = {} THEN {<<>>}
    ELSE UNION {{<<x>> \o p : p \in Orderings(S \ {x})} : x \in S}

\* _handle_top_sellers: one outcome for each order the database may give to
\* names of equal quantity
_handle_top_sellers(restaurant, entities) ==
    LET sold == {oi \in order_items :
                    \E o \in orders :
                        /\ o.id = oi.order
                        /\ o.restaurant = restaurant /\ o.today
                        /\ o.status \in SERVED_OR_COMPLETED}
        names == {oi.name : oi \in sold}
        of(name) == {oi \in sold : oi.name = name}
        qty == [n \in names |-> SumOver([oi \in of(n) |-> oi.quantity], of(n))]
        revenue == [n \in names |-> SumOver([oi \in of(n) |-> oi.total_price], of(n))]
        sorted == {p \in Orderings(names) :
                      \A k \in 1..Len(p) : \A l \in k..Len(p) : qty[p[k]] >= qty[p[l]]}
        row(n) == [name |-> n, qty |-> qty[n], revenue |-> revenue[n]]
        tops == {[k \in 1..Min(TopLimit, Len(p)) |-> row(p[k])] : p \in sorted}
    IN  IF names = {}
        THEN {Returned([message |-> [template |-> "No sales data available for today yet."],
                        intent |-> "TOP_SELLERS",
                        requires_confirmation |-> FALSE], menu_items)}
        ELSE {Returned([message |-> [template |-> "Top Sellers Today: {items_list}",
                                     items_list |-> top_items],
                        intent |-> "TOP_SELLERS",
                        requires_confirmation |-> FALSE], menu_items) : top_items \in tops}

_handle_greeting(entities, hour) ==
    Returned([message |->
                  [template |-> "Good {greeting}! I'm your AI assistant. How can I help you today?",
                   greeting |-> DayPart(hour)],
              intent |-> "GREETING",
              requires_confirmation |-> FALSE], menu_items)

_handle_help(entities) ==
    Returned([message |-> [template |-> "I can help you with: Menu Management, Sales & Analytics"],
              intent |-> "HELP",
              requires_confirmation |-> FALSE], menu_items)

\* the dict handlers of _handle_intent: the intents that have a handler
Handlers ==
    {"MENU_AVAILABILITY_TOGGLE", "MENU_PRICE_UPDATE", "SALES_QUERY_TODAY",
     "TOP_SELLERS", "GREETING", "HELP"}

\* a mapping with two handlers exchanged and a handler bound to TABLE_LIST
HandlerOf_exchanged(intent) ==
    CASE intent = "MENU_AVAILABILITY_TOGGLE" -> "_handle_availability_toggle"
      [] intent = "MENU_PRICE_UPDATE" -> "_handle_price_update"
      [] intent = "SALES_QUERY_TODAY" -> "_handle_sales_query"
      [] intent = "TOP_SELLERS" -> "_handle_top_sellers"
      [] intent = "GREETING" -> "_handle_help"
      [] intent = "HELP" -> "_handle_greeting"
      [] intent = "TABLE_LIST" -> "_handle_help"
      [] OTHER -> ""

\* handlers.get(intent): the name of the handler bound to the intent, or "" (None)
HandlerOf(intent) ==
    CASE intent = "MENU_AVAILABILITY_TOGGLE" -> "_handle_availability_toggle"
      [] intent = "MENU_PRICE_UPDATE" -> "_handle_price_update"
      [] intent = "SALES_QUERY_TODAY" -> "_handle_sales_query"
      [] intent = "TOP_SELLERS" -> "_handle_top_sellers"
      [] intent = "GREETING" -> "_handle_greeting"
      [] intent = "HELP" -> "_handle_help"
      [] OTHER -> ""

\* handler(entities) for the handler of that name: the set of its outcomes
CallHandler(handler, restaurant, entities, hour) ==
    CASE handler = "_handle_availability_toggle" ->
           {_handle_availability_toggle(restaurant, entities)}
      [] handler = "_handle_price_update" ->
           {_handle_price_update(restaurant, entities)}
      [] handler = "_handle_sales_query" ->
           {_handle_sales_query(restaurant, entities, hour)}
      [] handler = "_handle_top_sellers" -> _handle_top_sellers(restaurant, entities)
      [] handler = "_handle_greeting" -> {_handle_greeting(entities, hour)}
      [] handler = "_handle_help" -> {_handle_help(entities)}

\* the message of the default branch of _handle_intent
GenericMessage ==
    [template |-> "I couldn't understand that. Try asking me to update prices, mark items available/unavailable, or check today's sales."]

\* _handle_intent: the outcomes of the routed call
_handle_intent(restaurant, intent, entities, hour) ==
    LET handler == HandlerOf(intent)
    IN  IF handler # ""
        THEN CallHandler(handler, restaurant, entities, hour)
        ELSE {Returned([message |-> GenericMessage,
                        intent |-> intent,
                        requires_confirmation |-> FALSE], menu_items)}

----------------------------------------------------------------------------
(***************************************************************************)
(* The messages the model sends.  match_quick_pattern is tabulated over    *)
(* them (as the views pass them on, stripped) so that it is computed once. *)
(***************************************************************************)
Msg86 == <<"8", "6", " ", "t", "h", "e", " ", "l", "a", "s", "s", "i">>
MsgHelp86 == <<"H", "e", "l", "p", " ", "8", "6", " ", "t", "h", "e", " ", "l", "a", "s", "s", "i">>
MsgHi86Sales == <<"h", "i", ",", " ", "8", "6", " ", "s", "a", "l", "e", "s">>
MsgMark == <<"m", "a", "r", "k", " ", "l", "a", "s", "s", "i", " ", "a", "v", "a", "i", "l", "a", "b", "l", "e">>
MsgMarkSales == <<"m", "a", "r", "k", " ", "s", "a", "l", "e", "s", " ", "a", "v", "a", "i", "l", "a", "b", "l", "e">>
MsgIncrease == <<"i", "n", "c", "r", "e", "a", "s", "e", " ", "d", "r", "i", "n", "k", "s", " ", "b", "y", " ", "2", "0", "%">>
MsgDecrease == <<"d", "e", "c", "r", "e", "a", "s", "e", " ", "l", "a", "s", "s", "i", " ", "b", "y", " ", "1", "5">>
MsgIncreaseSales == <<"i", "n", "c", "r", "e", "a", "s", "e", " ", "s", "a", "l", "e", "s", " ", "b", "y", " ", "5">>
MsgDropBest == <<"d", "r", "o", "p", " ", "t", "h", "e", " ", "b", "e", "s", "t", " ", "s", "e", "l", "l", "e", "r", " ", "b", "y", " ", "1", "0", "%">>
MsgSales == <<"s", "a", "l", "e", "s">>
MsgHiSales == <<"h", "i", ",", " ", "h", "o", "w", "'", "s", " ", "s", "a", "l", "e", "s", " ", "t", "o", "d", "a", "y">>
MsgWhatToday == <<"w", "h", "a", "t", " ", "c", "a", "n", " ", "y", "o", "u", " ", "d", "o", " ", "t", "o", "d", "a", "y">>
MsgTopSeller == <<"t", "o", "p", " ", "s", "e", "l", "l", "e", "r">>
MsgHelloTop == <<"h", "e", "l", "l", "o", " ", "t", "o", "p", " ", "s", "e", "l", "l", "e", "r">>
MsgHelpTop == <<"h", "e", "l", "p", " ", "t", "o", "p", " ", "i", "t", "e", "m">>
MsgHello == <<"h", "e", "l", "l", "o">>
MsgHelp == <<"h", "e", "l", "p">>
MsgMenu == <<"m", "e", "n", "u">>
MsgBlank == <<" ", " ">>

Msg86A == <<"8", "6", " ", "a">>
MsgMarkA == <<"m", "a", "r", "k", " ", "a", " ", "a", "v", "a", "i", "l", "a", "b", "l", "e">>
MsgHelloPadded == <<" ", "H", "e", "l", "l", "o", " ">>

AllMessages ==
    {Msg86, MsgHelp86, MsgHi86Sales, MsgMark,
     MsgMarkSales, MsgIncrease, MsgDecrease, MsgIncreaseSales,
     MsgDropBest, MsgSales, MsgHiSales, MsgWhatToday,
     MsgTopSeller, MsgHelloTop, MsgHelpTop, MsgHello,
     MsgHelp, MsgMenu,
     MsgBlank, Msg86A, MsgMarkA, MsgHelloPadded}

\* price phrases: the two of the documentation, one with "to", and one whose
\* words hold the letters of another verb
MsgIncreaseBurger == <<"i", "n", "c", "r", "e", "a", "s", "e", " ", "b", "u", "r", "g", "e", "r", " ", "b", "y", " ", "2", "0", "%">>
MsgIncreaseBurgerTo == <<"i", "n", "c", "r", "e", "a", "s", "e", " ", "b", "u", "r", "g", "e", "r", " ", "t", "o", " ", "2", "0", "%">>
MsgDecreaseStarters == <<"d", "e", "c", "r", "e", "a", "s", "e", " ", "s", "t", "a", "r", "t", "e", "r", "s", " ", "b", "y", " ", "1", "5">>
MsgDropCup == <<"d", "r", "o", "p", " ", "c", "u", "p", " ", "s", "i", "z", "e", " ", "t", "o", " ", "5">>

PriceMessages ==
    {MsgIncreaseBurger, MsgIncreaseBurgerTo, MsgDecreaseStarters, MsgDropCup}

QuickMatch ==
    [m \in {strip(x) : x \in AllMessages \cup PriceMessages} |->
        match_quick_pattern(m)]

----------------------------------------------------------------------------
(***************************************************************************)
(* services.py: the fallback classifier.  What the external model does is  *)
(* an input of the call: gemini.api_key says whether settings.GEMINI_API_KEY*)
(* is set, gemini.failed whether anything inside the try block raised      *)
(* (import, network, json.loads), gemini.reply is the value json.loads     *)
(* returned otherwise.  A JSON value that is not an object is NotADict.    *)
(***************************************************************************)

\* what the external classifier may do
NoKey == [api_key |-> FALSE, failed |-> FALSE, reply |-> EmptyDict]
Unreachable == [api_key |-> TRUE, failed |-> TRUE, reply |-> EmptyDict]
Replies(reply) == [api_key |-> TRUE, failed |-> FALSE, reply |-> reply]
\* the classifier was not consulted
NotConsulted == [api_key |-> FALSE, failed |-> FALSE, reply |-> NotADict]

parse_with_gemini(gemini) ==
    IF ~gemini.api_key
    THEN [intent |-> "UNKNOWN", entities |-> EmptyDict, confidence |-> 0,
          needs_clarification |-> TRUE,
          clarification_question |-> "AI features require Gemini API key."]
    ELSE IF gemini.failed
    THEN [intent |-> "UNKNOWN", entities |-> EmptyDict, confidence |-> 0,
          needs_clarification |-> TRUE]
    ELSE gemini.reply

(***************************************************************************)
(* services.py: AIService.process_message.  Every create() and update() is *)
(* committed when it is issued (no transaction is opened anywhere in the   *)
(* code), so what was written before an exception stays written.  A        *)
(* conversation id is a positive number, NoId stands for None;             *)
(* processing_time, a wall-clock measurement, is left out of the rows.     *)
(* The result is the set of possible runs: the tables after the call, the  *)
(* dict returned or the exception raised, and what was done on the way.    *)
(***************************************************************************)
NoId == 0

\* a create() that puts the new row before the rows of the table
Create_first(table, row) == <<row>> \o table

\* AIMessage.objects.create: the row is added after the rows of the table
Create(table, row) == Append(table, row)

\* a lookup by id alone
FindConversation_any_restaurant(conversation_id, restaurant) ==
    {k \in 1..Len(conversations) : conversations[k].id = conversation_id}

\* AIConversation.objects.filter(id=conversation_id, restaurant=self.restaurant)
FindConversation(conversation_id, restaurant) ==
    {k \in 1..Len(conversations) :
        /\ conversations[k].id = conversation_id
        /\ conversations[k].restaurant = restaurant}

\* a service that consults the external classifier for every message
NeedsFallback_always(result) == TRUE

\* `if not result`: match_quick_pattern found nothing
NeedsFallback(result) == result = None

Run(raised, returned, convs, msgs, menu, trace) ==
    [raised |-> raised, returned |-> returned, conversations |-> convs,
     messages |-> msgs, menu_items |-> menu, trace |-> trace]

process_message(restaurant, user, message, conversation_id, gemini, hour) ==
    LET creates == conversation_id = NoId
        found == FindConversation(conversation_id, restaurant)
        created == [id |-> Len(conversations) + 1, restaurant |-> restaurant,
                    user |-> user, is_active |-> TRUE]
        convs == IF creates THEN Append(conversations, created) ELSE conversations
        \* conversation.id, or NoId when .first() found no row
        conversation == IF creates THEN created.id
                        ELSE IF found # {} THEN conversation_id ELSE NoId
        quick == QuickMatch[message]
        gemini_called == NeedsFallback(quick)
        result == IF gemini_called THEN parse_with_gemini(gemini) ELSE quick
        intent == Get(result, "intent", "UNKNOWN")
        entities == Get(result, "entities", EmptyDict)
        \* what the call did on its way: the classification, whether and how the
        \* external classifier was consulted, and whether the router was reached
        trace(routed) ==
            [result |-> result, gemini_called |-> gemini_called,
             gemini |-> IF gemini_called THEN gemini ELSE NotConsulted,
             routed |-> routed,
             handler |-> IF routed THEN HandlerOf(intent) ELSE ""]
        user_message == [conversation |-> conversation, role |-> "USER",
                         content |-> [text |-> message], intent |-> intent,
                         confidence |-> Get(result, "confidence", 0),
                         entities |-> entities]
        logged == Create(messages, user_message)
        assistant_message(response) ==
            [conversation |-> conversation, role |-> "ASSISTANT",
             content |-> response.message, intent |-> intent,
             confidence |-> 0, entities |-> EmptyDict]
    IN  IF ~IsDict(result)
        THEN \* result.get: a list has no attribute get
             {Run("AttributeError", EmptyDict, convs, messages, menu_items,
                  trace(FALSE))}
        ELSE IF conversation = NoId
        THEN \* ai_messages.conversation_id is NOT NULL
             {Run("IntegrityError", EmptyDict, convs, messages, menu_items,
                  trace(FALSE))}
        ELSE {IF out.raised # ""
              THEN Run(out.raised, EmptyDict, convs, logged, out.menu_items,
                       trace(TRUE))
              ELSE Run("", [conversation_id |-> conversation] @@ out.response, convs,
                       Create(logged, assistant_message(out.response)),
                       out.menu_items, trace(TRUE))
              : out \in _handle_intent(restaurant, intent, entities, hour)}

----------------------------------------------------------------------------
(***************************************************************************)
(* views.py: the three entry points.  request.data is a dict; a request    *)
(* that ends in an uncaught exception is answered 500 by the framework.    *)
(***************************************************************************)
HTTP_200_OK == "200 OK"
HTTP_400_BAD_REQUEST == "400 Bad Request"
HTTP_500_INTERNAL_SERVER_ERROR == "500 Internal Server Error"

Response(op, user, data, status, body, raised, trace) ==
    [op |-> op, user |-> user, data |-> data, status |-> status, body |-> body,
     raised |-> raised, trace |-> trace]

\* a view that lets every message through
MessageMissing_never(message) == FALSE

\* `if not message` and `if not changes`
MessageMissing(message) == message = <<>>
ChangesMissing(changes) == changes = <<>>

\* AIParseView.post
Parse(user, data, gemini, hour) ==
    LET message == strip(Get(data, "message", <<>>))
        conversation_id == Get(data, "conversation_id", NoId)
    IN  IF MessageMissing(message)
        THEN /\ last' = Response("Parse", user, data, HTTP_400_BAD_REQUEST,
                                 [error |-> "Message is required"], "", EmptyDict)
             /\ UNCHANGED <<menu_items, conversations, messages, sales, actions,
                            confirming>>
        ELSE /\ \E run \in process_message(restaurant_of(user), user, message,
                                           conversation_id, gemini, hour) :
                  /\ conversations' = run.conversations
                  /\ messages' = run.messages
                  /\ menu_items' = run.menu_items
                  /\ last' = IF run.raised # ""
                             THEN Response("Parse", user, data,
                                           HTTP_500_INTERNAL_SERVER_ERROR,
                                           EmptyDict, run.raised, run.trace)
                             ELSE Response("Parse", user, data, HTTP_200_OK,
                                           [success |-> TRUE, data |-> run.returned],
                                           "", run.trace)
             /\ UNCHANGED <<sales, actions, confirming>>

\* a JSON number, and a JSON string that spells no number, as the value of
\* newPrice
Num(n) == [num |-> n]
Text(s) == [text |-> s]

\* the ids that parse as a UUID: those of the rows and one of no row
UUIDs == ItemIds \cup {"i9"}

\* how the database in use rounds a tie: the backends that quantize in
\* Python round it to even, a numeric(10, 2) column of PostgreSQL rounds it
\* away from zero; the settings that choose the backend are not in the code
Roundings == {"ROUND_HALF_EVEN", "ROUND_HALF_UP"}

\* numer / denom rounded to an integer, ties away from zero, for numer >= 0
RoundHalfUp(numer, denom) ==
    IF 2 * (numer % denom) < denom THEN numer \div denom
    ELSE (numer \div denom) + 1

\* a column that keeps whole rupees
Quantize_to_rupee(d, rounding) == (d \div Scale) * Scale

\* DecimalField(decimal_places=2) as the column stores a Decimal: rounded to
\* the cent, the sign kept
Quantize(d, rounding) ==
    LET round(n) == IF rounding = "ROUND_HALF_EVEN" THEN RoundHalfEven(n, Cent)
                    ELSE RoundHalfUp(n, Cent)
    IN  IF d >= 0 THEN round(d) * Cent ELSE -(round(-d) * Cent)

\* the loop of AIConfirmView.post from entry k on, over the table menu with
\* updated entries applied so far
RECURSIVE ApplyChanges(_, _, _, _, _, _)
ApplyChanges(restaurant, changes, k, menu, updated, rounding) ==
    IF k > Len(changes)
    THEN [raised |-> "", menu_items |-> menu, updated |-> updated]
    ELSE LET change == changes[k]
             stop(exception) ==
                 [raised |-> exception, menu_items |-> menu, updated |-> updated]
         IN  IF "itemId" \notin DOMAIN change THEN stop("KeyError")
             ELSE IF change.itemId \notin UUIDs THEN stop("ValidationError")
             ELSE IF ~(/\ change.itemId \in DOMAIN menu
                       /\ menu[change.itemId].restaurant = restaurant)
             THEN \* MenuItem.DoesNotExist: continue
                  ApplyChanges(restaurant, changes, k + 1, menu, updated, rounding)
             ELSE IF "newPrice" \notin DOMAIN change THEN stop("KeyError")
             ELSE IF "num" \notin DOMAIN change.newPrice THEN stop("InvalidOperation")
             ELSE ApplyChanges(restaurant, changes, k + 1,
                               [menu EXCEPT ![change.itemId].base_price =
                                                Quantize(change.newPrice.num,
                                                         rounding)],
                               updated + 1, rounding)

\* what a Confirm call did on its way: the entries it applied and the prices
\* the catalog held when it began
ConfirmTrace(updated, menu) ==
    [updated |-> updated, before |-> [i \in DOMAIN menu |-> menu[i].base_price]]

\* a Confirm that applies a list only while every entry that carries an
\* oldPrice finds that price in the catalog
Confirm_if_unchanged(user, data, rounding) ==
    LET changes == Get(data, "changes", <<>>)
        stale == \E k \in 1..Len(changes) :
                     /\ "oldPrice" \in DOMAIN changes[k]
                     /\ changes[k].itemId \in DOMAIN menu_items
                     /\ menu_items[changes[k].itemId].base_price # changes[k].oldPrice
        done == ApplyChanges(restaurant_of(user), changes, 1, menu_items, 0, rounding)
    IN  /\ IF ChangesMissing(changes)
           THEN /\ last' = Response("Confirm", user, data, HTTP_400_BAD_REQUEST,
                                    [error |-> "No changes to apply"], "", EmptyDict)
                /\ UNCHANGED menu_items
           ELSE /\ menu_items' = IF stale THEN menu_items ELSE done.menu_items
                /\ last' = Response("Confirm", user, data, HTTP_200_OK,
                                    [success |-> TRUE,
                                     data |-> [updated_count |->
                                                   IF stale THEN 0 ELSE done.updated]],
                                    "", ConfirmTrace(done.updated, menu_items))
        /\ UNCHANGED <<conversations, messages, sales, actions, confirming>>

\* AIConfirmView.post
Confirm(user, data, rounding) ==
    LET changes == Get(data, "changes", <<>>)
        done == ApplyChanges(restaurant_of(user), changes, 1, menu_items, 0, rounding)
    IN  /\ IF ChangesMissing(changes)
           THEN /\ last' = Response("Confirm", user, data, HTTP_400_BAD_REQUEST,
                                    [error |-> "No changes to apply"], "", EmptyDict)
                /\ UNCHANGED menu_items
           ELSE /\ menu_items' = done.menu_items
                /\ last' = IF done.raised # ""
                           THEN Response("Confirm", user, data,
                                         HTTP_500_INTERNAL_SERVER_ERROR, EmptyDict,
                                         done.raised, ConfirmTrace(done.updated, menu_items))
                           ELSE Response("Confirm", user, data, HTTP_200_OK,
                                         [success |-> TRUE,
                                          data |-> [updated_count |-> done.updated,
                                                    message |-> [template |-> "Successfully updated {updated} item(s).",
                                                                 updated |-> done.updated]]],
                                         "", ConfirmTrace(done.updated, menu_items))
        /\ UNCHANGED <<conversations, messages, sales, actions, confirming>>

\* a cancel that records the cancellation and closes the conversations
Cancel_recording(user, data) ==
    /\ last' = Response("Cancel", user, data, HTTP_200_OK,
                        [success |-> TRUE,
                         data |-> [message |-> [template |-> "Action cancelled."]]],
                        "", EmptyDict)
    /\ actions' = actions \cup {[id |-> Get(data, "action_id", ""), status |-> "CANCELLED"]}
    /\ conversations' = [k \in 1..Len(conversations) |->
                            [conversations[k] EXCEPT !.is_active = FALSE]]
    /\ UNCHANGED <<menu_items, messages, sales, confirming>>

\* a cancel that restores the seeded prices
Cancel_restoring(user, data) ==
    /\ last' = Response("Cancel", user, data, HTTP_200_OK,
                        [success |-> TRUE,
                         data |-> [message |-> [template |-> "Action cancelled."]]],
                        "", EmptyDict)
    /\ menu_items' = [i \in DOMAIN menu_items |->
                         [menu_items[i] EXCEPT !.base_price = InitialMenu[i].base_price]]
    /\ UNCHANGED <<conversations, messages, sales, actions, confirming>>

\* AICancelView.post
Cancel(user, data) ==
    /\ last' = Response("Cancel", user, data, HTTP_200_OK,
                        [success |-> TRUE,
                         data |-> [message |-> [template |-> "Action cancelled."]]],
                        "", EmptyDict)
    /\ UNCHANGED <<menu_items, conversations, messages, sales, actions, confirming>>

----------------------------------------------------------------------------
(***************************************************************************)
(* The state after deployment: the seeded catalog, no conversation yet,    *)
(* and one day of trading.  Restaurant r1 has served orders; r2 has a     *)
(* paid invoice and no served order today.                                 *)
(***************************************************************************)
InitialOrders ==
    {[id |-> "o1", restaurant |-> "r1", today |-> TRUE, status |-> "COMPLETED", covers |-> 2],
     [id |-> "o2", restaurant |-> "r1", today |-> TRUE, status |-> "SERVED", covers |-> 3],
     [id |-> "o3", restaurant |-> "r1", today |-> TRUE, status |-> "PLACED", covers |-> 1],
     [id |-> "o4", restaurant |-> "r1", today |-> FALSE, status |-> "COMPLETED", covers |-> 4],
     [id |-> "o5", restaurant |-> "r2", today |-> TRUE, status |-> "CANCELLED", covers |-> 2]}

InitialOrderItems ==
    {[id |-> "oi1", order |-> "o1", name |-> <<"L", "a", "s", "s", "i">>, quantity |-> 2, total_price |-> Rupees(400)],
     [id |-> "oi2", order |-> "o1", name |-> <<"C", "h", "a", "i">>, quantity |-> 2, total_price |-> Rupees(30)],
     [id |-> "oi3", order |-> "o2", name |-> <<"L", "a", "s", "s", "i">>, quantity |-> 1, total_price |-> Rupees(200)],
     [id |-> "oi4", order |-> "o3", name |-> <<"C", "h", "a", "i">>, quantity |-> 5, total_price |-> Rupees(75)],
     [id |-> "oi5", order |-> "o4", name |-> <<"C", "h", "a", "i">>, quantity |-> 9, total_price |-> Rupees(135)],
     [id |-> "oi6", order |-> "o5", name |-> <<"L", "a", "s", "s", "i">>, quantity |-> 1, total_price |-> Rupees(50)]}

InitialInvoices ==
    {[id |-> "v1", restaurant |-> "r1", today |-> TRUE, status |-> "PAID", total_amount |-> Rupees(500)],
     [id |-> "v2", restaurant |-> "r1", today |-> TRUE, status |-> "PARTIALLY_PAID", total_amount |-> Rupees(100)],
     [id |-> "v3", restaurant |-> "r2", today |-> TRUE, status |-> "PAID", total_amount |-> Rupees(120)]}

\* no Confirm request is between its first and its last statement
NoConfirm == [running |-> FALSE]

\* the workers that serve record-payment requests, none of them serving one
Workers == {"w1", "w2"}
Idle == [pc |-> "idle"]
NoRecording == [w \in Workers |-> Idle]

NoRequest == Response("none", "u1", EmptyDict, HTTP_200_OK, EmptyDict, "", EmptyDict)

Init ==
    /\ menu_items = InitialMenu
    /\ conversations = <<>>
    /\ messages = <<>>
    /\ orders = InitialOrders
    /\ order_items = InitialOrderItems
    /\ invoices = InitialInvoices
    /\ actions = {}
    /\ confirming = NoConfirm
    /\ payments = <<>>
    /\ recording = NoRecording
    /\ last = NoRequest

(***************************************************************************)
(* The requests of the model.  A step is one request served from start to  *)
(* end.  The model stops sending Parse requests that would take a table    *)
(* beyond its bound.                                                       *)
(***************************************************************************)
ParseRequests(msgs) ==
    {EmptyDict}
    \cup {[message |-> m] : m \in msgs}
    \cup {[message |-> m, conversation_id |-> c] :
             m \in msgs, c \in 1..MaxConversations}

WithinBounds(data, rows) ==
    /\ Len(messages) + 2 <= rows
    /\ "conversation_id" \notin DOMAIN data => Len(conversations) < MaxConversations

\* a Parse request of one of users, while the log has room for rows rows
ParseStepOf(users, msgs, geminis, hours, rows) ==
    \E user \in users, data \in ParseRequests(msgs), gemini \in geminis,
       hour \in hours :
        /\ strip(Get(data, "message", <<>>)) # <<>> => WithinBounds(data, rows)
        /\ Parse(user, data, gemini, hour)

ParseStep(msgs, geminis, hours) ==
    ParseStepOf(Users, msgs, geminis, hours, MaxMessages)

\* the sequences over S of length 1..n
RECURSIVE SeqsUpTo(_, _)
SeqsUpTo(S, n) ==
    IF n = 0 THEN {}
    ELSE {<<x>> : x \in S}
         \cup {<<x>> \o s : x \in S, s \in SeqsUpTo(S, n - 1)}

ConfirmRequests(entries) ==
    {EmptyDict, [changes |-> <<>>]}
    \cup {[changes |-> c] : c \in SeqsUpTo(entries, MaxChanges)}

ConfirmStep(entries) ==
    \E user \in Users, data \in ConfirmRequests(entries), rounding \in Roundings :
        Confirm(user, data, rounding)

CancelRequests == {EmptyDict, [action_id |-> "a1"]}

CancelStep ==
    \E user \in Users, data \in CancelRequests : Cancel(user, data)

(***************************************************************************)
(* Spec: the three entry points called in any order by users of both       *)
(* restaurants.                                                            *)
(***************************************************************************)
ParseMessages == {Msg86, MsgDecrease, MsgMenu, MsgBlank}
GeminiOutcomes == {NoKey, Unreachable}
Hours == {9}

Entries ==
    {[itemId |-> "i1", newPrice |-> Num(Rupees(185))],
     [itemId |-> "i9", newPrice |-> Num(Rupees(10))]}

DoParse == ParseStep(ParseMessages, GeminiOutcomes, Hours)
DoConfirm == ConfirmStep(Entries)
DoCancel == CancelStep

Next == DoParse \/ DoConfirm \/ DoCancel

Spec == Init /\ [][Next]_vars

(***************************************************************************)
(* SpecConfirm: Confirm requests alone, over change lists that also carry  *)
(* an id that is no UUID, an item of the other restaurant, a price that is *)
(* no number, a price of three decimals, 12.345, and a price below 0.      *)
(***************************************************************************)
ConfirmEntries ==
    {[itemId |-> "i1", newPrice |-> Num(Rupees(185))],
     [itemId |-> "i9", newPrice |-> Num(Rupees(10))],
     [itemId |-> "xyz", newPrice |-> Num(Rupees(10))],
     [itemId |-> "i3", newPrice |-> Num(Rupees(45))],
     [itemId |-> "i2", newPrice |-> Text(<<"a", "b", "c">>)],
     [itemId |-> "i1", newPrice |-> Num(Rupees(12) + 345 * (Scale \div 1000))]}

DoConfirmAny == ConfirmStep(ConfirmEntries)

NextConfirm == DoConfirmAny

SpecConfirm == Init /\ [][NextConfirm]_vars

(***************************************************************************)
(* SpecPatterns: Parse requests over every message of the model, with the  *)
(* external classifier unconfigured.                                       *)
(***************************************************************************)
PatternMessages == AllMessages \ {MsgBlank}

DoParsePattern == ParseStepOf(Users, PatternMessages, {NoKey}, Hours, MaxPatternRows)

NextPatterns == DoParsePattern

SpecPatterns == Init /\ [][NextPatterns]_vars

(***************************************************************************)
(* SpecRouter: Parse requests of a message no pattern matches, the         *)
(* external classifier answering with every intent of the closed set, with *)
(* an intent outside of it, with an object without keys, with a list, with *)
(* entities that lack keys or are a list, and with a confidence of 1.5.    *)
(***************************************************************************)
RouterEntities(intent) ==
    CASE intent = "MENU_AVAILABILITY_TOGGLE" ->
           [items |-> <<<<"c", "h", "a", "i">>>>, available |-> FALSE]
      [] intent = "MENU_PRICE_UPDATE" ->
           [target |-> <<"l", "a", "s", "s", "i">>, modifier |-> "INCREMENT",
            value |-> Rupees(10), is_percentage |-> TRUE]
      [] OTHER -> EmptyDict

RouterReplies ==
    {[intent |-> i, entities |-> RouterEntities(i), confidence |-> 8 * (Scale \div 10)] :
        i \in INTENTS \cup {"ORDER_CREATE"}}
    \cup {EmptyDict, NotADict}
    \cup {[intent |-> "MENU_AVAILABILITY_TOGGLE", entities |-> NotADict,
            confidence |-> 8 * (Scale \div 10)],
           [intent |-> "MENU_AVAILABILITY_TOGGLE", entities |-> EmptyDict,
            confidence |-> 8 * (Scale \div 10)],
           [intent |-> "MENU_PRICE_UPDATE", entities |-> EmptyDict,
            confidence |-> 8 * (Scale \div 10)],
           [intent |-> "GREETING", entities |-> EmptyDict,
            confidence |-> 15 * (Scale \div 10)]}

RouterOutcomes == {Replies(r) : r \in RouterReplies}
RouterHours == {20}

DoParseRouted == ParseStepOf({"u1"}, {MsgMenu}, RouterOutcomes, RouterHours, MaxMessages)

NextRouter == DoParseRouted

SpecRouter == Init /\ [][NextRouter]_vars

----------------------------------------------------------------------------
(***************************************************************************)
(* Properties.  last is the request just served and its response; a step   *)
(* property reads the request from last'.                                  *)
(***************************************************************************)
\* the request l was a Parse call that reached the router and was given to handler
Routed(l, handler) ==
    /\ l.op = "Parse"
    /\ l.status # HTTP_400_BAD_REQUEST
    /\ l.trace.routed
    /\ l.trace.handler = handler

EntitiesOf(l) == Get(l.trace.result, "entities", EmptyDict)

\* what a Parse call gave back: the exception, or the preview of the payload
OutcomeOf(l) ==
    [raised |-> l.raised,
     preview |-> IF "data" \in DOMAIN l.body /\ "preview" \in DOMAIN l.body.data
                 THEN l.body.data.preview ELSE None]

C2_PriceChangesOnlyOnConfirm ==
    [][\A i \in DOMAIN menu_items :
          menu_items'[i].base_price # menu_items[i].base_price =>
              /\ last'.op = "Confirm"
              /\ LET changes == Get(last'.data, "changes", <<>>)
                 IN  \E k \in 1..Len(changes) : Get(changes[k], "itemId", "") = i]_vars

\* a Confirm call has changed a price after Parse calls were served
C2_Witness ==
    /\ last.op = "Confirm"
    /\ last.status = HTTP_200_OK
    /\ menu_items["i1"].base_price = Rupees(185)
    /\ InitialMenu["i1"].base_price # Rupees(185)
    /\ Len(messages) > 0

\* C3: after a Confirm call with a non-empty change list (every entry an
\* itemId and a numeric newPrice), the call has succeeded, updated_count is
\* the number of entries whose itemId is an item of the caller's restaurant,
\* and every such item carries the price of the last entry that names it.
C3_SkipsUnknownItems ==
    LET changes == Get(last.data, "changes", <<>>)
        restaurant == restaurant_of(last.user)
        found == {k \in 1..Len(changes) :
                     /\ changes[k].itemId \in DOMAIN InitialMenu
                     /\ InitialMenu[changes[k].itemId].restaurant = restaurant}
    IN  (/\ last.op = "Confirm"
         /\ changes # <<>>
         /\ \A k \in 1..Len(changes) :
               /\ {"itemId", "newPrice"} \subseteq DOMAIN changes[k]
               /\ "num" \in DOMAIN changes[k].newPrice)
        => /\ last.status = HTTP_200_OK
           /\ last.body.data.updated_count = Cardinality(found)
           /\ \A k \in found :
                 (\A j \in found : j > k => changes[j].itemId # changes[k].itemId)
                 => menu_items[changes[k].itemId].base_price
                        \in {Quantize(changes[k].newPrice.num, r) : r \in Roundings}

\* the request l was a toggle of the availability of named items
Toggled(l) ==
    /\ Routed(l, "_handle_availability_toggle")
    /\ Get(EntitiesOf(l), "items", <<>>) # <<>>

\* C4: a toggle leaves every item of the caller's restaurant whose name
\* contains a fragment in the target availability, and a toggle that follows
\* a toggle of the same restaurant with the same fragments and the same
\* target succeeds as the first did, reports the same count and leaves the
\* catalog as the first left it.
C4_ToggleIdempotent ==
    [][Toggled(last') =>
          /\ last'.status = HTTP_200_OK
          /\ \A i \in DOMAIN menu_items :
                (/\ menu_items[i].restaurant = restaurant_of(last'.user)
                 /\ \E k \in 1..Len(EntitiesOf(last').items) :
                       Contains(lower(menu_items[i].name),
                                lower(EntitiesOf(last').items[k])))
                => menu_items'[i].is_available = EntitiesOf(last').available
          /\ (/\ Toggled(last)
              /\ restaurant_of(last'.user) = restaurant_of(last.user)
              /\ EntitiesOf(last') = EntitiesOf(last))
             => /\ last.status = HTTP_200_OK
                /\ menu_items' = menu_items
                /\ last'.body.data.message.count = last.body.data.message.count]_vars

\* the same toggle has been served twice in a row and has matched an item
C4_Witness ==
    /\ Toggled(last)
    /\ last.body.data.message.count = 1
    /\ ~menu_items["i1"].is_available
    /\ Len(messages) >= 4
    /\ LET n == Len(messages)
       IN  /\ messages[n - 3].role = "USER" /\ messages[n - 1].role = "USER"
           /\ messages[n - 3].intent = "MENU_AVAILABILITY_TOGGLE"
           /\ messages[n - 3].entities = messages[n - 1].entities
           /\ messages[n - 2].content = messages[n].content
           /\ conversations[messages[n - 3].conversation].restaurant
                  = conversations[messages[n - 1].conversation].restaurant

\* C5: a Parse call of a message no pattern matches, served while the
\* external classifier is unconfigured or unreachable, does not raise: the
\* classification is UNKNOWN with confidence 0 and needs_clarification true,
\* and the response carries the intent UNKNOWN.
C5_DegradesToUnknown ==
    (/\ last.op = "Parse"
     /\ last.status # HTTP_400_BAD_REQUEST
     /\ last.trace.gemini_called
     /\ ~last.trace.gemini.api_key \/ last.trace.gemini.failed)
    => /\ last.raised = ""
       /\ last.status = HTTP_200_OK
       /\ last.trace.result.intent = "UNKNOWN"
       /\ last.trace.result.confidence = 0
       /\ last.trace.result.needs_clarification
       /\ last.body.data.intent = "UNKNOWN"

\* C6: every Parse call with a non-empty message ends by returning a
\* response that carries message, intent and requires_confirmation; none
\* ends by raising.
C6_NoParseRaises ==
    (/\ last.op = "Parse"
     /\ strip(Get(last.data, "message", <<>>)) # <<>>)
    => /\ last.raised = ""
       /\ last.status = HTTP_200_OK
       /\ {"message", "intent", "requires_confirmation"} \subseteq DOMAIN last.body.data

\* match_quick_pattern's patterns one by one: what pattern k alone makes of
\* the message m, None when it does not match
PatternResults ==
    [m \in {strip(x) : x \in AllMessages} |->
        [k \in 1..Len(QUICK_PATTERNS) |->
            LET match == re_search(QUICK_PATTERNS[k].pattern, lower(m))
            IN  IF match.matched
                THEN [intent |-> QUICK_PATTERNS[k].intent,
                      entities |-> Extract(QUICK_PATTERNS[k].extractor, match, lower(m)),
                      confidence |-> Scale]
                ELSE None]]

\* C7: the classification of a Parse call is the result of the first
\* pattern of QUICK_PATTERNS that matches the message, whatever later
\* pattern matches too, and the external classifier is consulted exactly
\* when none matches; "86 the lassi" is MENU_AVAILABILITY_TOGGLE with
\* available false and items ["lassi"], and so is "Help 86 the lassi", which
\* the help pattern matches too.
C7_FirstMatchingPatternWins ==
    (last.op = "Parse" /\ last.status # HTTP_400_BAD_REQUEST) =>
        LET message == strip(last.data.message)
            hits == {k \in 1..Len(QUICK_PATTERNS) : PatternResults[message][k] # None}
            first == CHOOSE k \in hits : \A j \in hits : k <= j
            lassi == [intent |-> "MENU_AVAILABILITY_TOGGLE",
                      entities |-> [items |-> <<<<"l", "a", "s", "s", "i">>>>,
                                    available |-> FALSE],
                      confidence |-> Scale]
        IN  /\ last.trace.gemini_called <=> hits = {}
            /\ hits # {} => last.trace.result = PatternResults[message][first]
            /\ message \in {Msg86, MsgHelp86} => last.trace.result = lassi
            /\ message = MsgHi86Sales =>
                   last.trace.result.intent = "MENU_AVAILABILITY_TOGGLE"
            /\ message \in {MsgHiSales, MsgWhatToday} =>
                   last.trace.result.intent = "SALES_QUERY_TODAY"
            /\ message \in {MsgHelloTop, MsgHelpTop} =>
                   last.trace.result.intent = "TOP_SELLERS"

\* "Help 86 the lassi", which the 86 pattern and the help pattern both match,
\* has been served and has made the lassi unavailable
C7_Witness ==
    /\ last.op = "Parse"
    /\ last.status = HTTP_200_OK
    /\ last.data.message = MsgHelp86
    /\ PatternResults[MsgHelp86][1] # None
    /\ PatternResults[MsgHelp86][8] # None
    /\ last.trace.handler = "_handle_availability_toggle"
    /\ ~menu_items["i1"].is_available

\* newPrice as the specification states it, in units of 1/Scale
C8_NewPrice(old, entities) ==
    LET percent == (old * entities.value) \div (100 * Scale)
        new == CASE entities.modifier = "INCREMENT" /\ entities.is_percentage -> old + percent
                 [] entities.modifier = "INCREMENT" /\ ~entities.is_percentage -> old + entities.value
                 [] entities.modifier = "DECREMENT" /\ entities.is_percentage -> old - percent
                 [] entities.modifier = "DECREMENT" /\ ~entities.is_percentage -> old - entities.value
    IN  IF new < 0 THEN 0 ELSE new

\* C8: a Parse call routed to the price-update handler with a target that
\* names an item of the caller's restaurant returns a preview, every change of
\* which carries the stored price as oldPrice and, as newPrice, the price the
\* four formulas give, not below 0: the item priced 200 decreased by 15 is
\* previewed at 185.
C8_PreviewArithmetic ==
    (/\ Routed(last, "_handle_price_update")
     /\ \E i \in DOMAIN menu_items :
           /\ menu_items[i].restaurant = restaurant_of(last.user)
           /\ Contains(lower(menu_items[i].name), lower(EntitiesOf(last).target)))
    => /\ last.raised = ""
       /\ "preview" \in DOMAIN last.body.data
       /\ LET changes == last.body.data.preview.changes
          IN  /\ changes # <<>>
              /\ \A k \in 1..Len(changes) :
                    /\ changes[k].oldPrice = menu_items[changes[k].itemId].base_price
                    /\ changes[k].newPrice = C8_NewPrice(changes[k].oldPrice, EntitiesOf(last))
                    /\ changes[k].newPrice >= 0
                    /\ (/\ changes[k].oldPrice = Rupees(200)
                        /\ EntitiesOf(last).modifier = "DECREMENT"
                        /\ EntitiesOf(last).value = Rupees(15)
                        /\ ~EntitiesOf(last).is_percentage)
                       => changes[k].newPrice = Rupees(185)

\* C9: a Parse call whose message is missing, empty or blank is answered
\* with an error and leaves the conversations, the message log and the
\* catalog as they were; a Confirm call whose change list is missing or empty
\* is answered with an error and leaves the catalog as it was.
C9_ValidationRejectsFirst ==
    [][/\ (/\ last'.op = "Parse"
           /\ strip(Get(last'.data, "message", <<>>)) = <<>>)
          => /\ last'.status = HTTP_400_BAD_REQUEST
             /\ "error" \in DOMAIN last'.body
             /\ UNCHANGED <<conversations, messages, menu_items, sales>>
       /\ (/\ last'.op = "Confirm"
           /\ Get(last'.data, "changes", <<>>) = <<>>)
          => /\ last'.status = HTTP_400_BAD_REQUEST
             /\ "error" \in DOMAIN last'.body
             /\ UNCHANGED <<conversations, messages, menu_items, sales>>]_vars

\* a blank message has been rejected after conversations were opened and a
\* price was changed
C9_Witness ==
    /\ last.op = "Parse"
    /\ "message" \in DOMAIN last.data
    /\ last.data.message = MsgBlank
    /\ last.status = HTTP_400_BAD_REQUEST
    /\ conversations # <<>>
    /\ menu_items # InitialMenu

\* C10: a Parse call that reaches the router with an intent of the mapping
\* is given to the handler the mapping binds to that intent, and the response
\* of a handler is tagged with its intent; with any other intent the call is
\* given to no handler and returns the generic message, the intent as it came
\* and requires_confirmation false, and leaves the catalog and the sales data
\* as they were.
C10_RouterClosedMapping ==
    [][(/\ last'.op = "Parse"
        /\ last'.status # HTTP_400_BAD_REQUEST
        /\ last'.trace.routed)
       => LET intent == Get(last'.trace.result, "intent", "UNKNOWN")
              own == [i \in {"MENU_PRICE_UPDATE", "MENU_AVAILABILITY_TOGGLE",
                             "SALES_QUERY_TODAY", "TOP_SELLERS", "GREETING", "HELP"} |->
                        CASE i = "MENU_PRICE_UPDATE" -> "_handle_price_update"
                          [] i = "MENU_AVAILABILITY_TOGGLE" -> "_handle_availability_toggle"
                          [] i = "SALES_QUERY_TODAY" -> "_handle_sales_query"
                          [] i = "TOP_SELLERS" -> "_handle_top_sellers"
                          [] i = "GREETING" -> "_handle_greeting"
                          [] i = "HELP" -> "_handle_help"]
          IN  IF intent \in DOMAIN own
              THEN /\ last'.trace.handler = own[intent]
                   /\ last'.raised = "" =>
                          /\ last'.body.data.intent = intent
                          /\ last'.body.data.message # GenericMessage
              ELSE /\ last'.trace.handler = ""
                   /\ last'.raised = ""
                   /\ last'.status = HTTP_200_OK
                   /\ last'.body.data.message = GenericMessage
                   /\ last'.body.data.intent = intent
                   /\ last'.body.data.requires_confirmation = FALSE
                   /\ "preview" \notin DOMAIN last'.body.data
                   /\ UNCHANGED <<menu_items, sales>>]_vars

\* an intent outside of the closed set has been answered by the default
\* branch, after a toggle was routed to its handler
C10_Witness ==
    /\ last.op = "Parse"
    /\ last.status = HTTP_200_OK
    /\ last.trace.routed
    /\ last.body.data.intent = "ORDER_CREATE"
    /\ last.trace.result.intent = "ORDER_CREATE"
    /\ last.body.data.message = GenericMessage
    /\ ~menu_items["i2"].is_available

\* the entries of the Confirm request l that name an item of the caller's
\* restaurant and no later entry names the same item
LastFound(l) ==
    LET changes == Get(l.data, "changes", <<>>)
    IN  {k \in 1..Len(changes) :
            /\ changes[k].itemId \in DOMAIN InitialMenu
            /\ InitialMenu[changes[k].itemId].restaurant = restaurant_of(l.user)
            /\ \A j \in (k + 1)..Len(changes) : changes[j].itemId # changes[k].itemId}

\* C11 as stated: after a Confirm call that completed, every item found
\* carries exactly the newPrice of the last entry that names it.
C11_AppliedVerbatim ==
    (last.op = "Confirm" /\ last.status = HTTP_200_OK) =>
        \A k \in LastFound(last) :
            menu_items[last.data.changes[k].itemId].base_price
                = last.data.changes[k].newPrice.num

\* C11, amended: after a Confirm call that completed, every item found
\* carries the newPrice of the last entry that names it rounded to the nearest
\* cent (a tie to either side), whatever its price was before the call.
C11_AppliedToTheCent ==
    (last.op = "Confirm" /\ last.status = HTTP_200_OK) =>
        \A k \in LastFound(last) :
            LET stored == menu_items[last.data.changes[k].itemId].base_price
                sent == last.data.changes[k].newPrice.num
            IN  /\ stored % Cent = 0
                /\ 2 * (stored - sent) <= Cent
                /\ 2 * (sent - stored) <= Cent
                /\ sent % Cent = 0 => stored = sent

\* a Confirm call has completed whose two entries name the lassi, the last
\* one with a price of three decimals, and the lassi carries a price of two
C11_Witness ==
    /\ last.op = "Confirm"
    /\ last.status = HTTP_200_OK
    /\ restaurant_of(last.user) = "r1"
    /\ Len(last.data.changes) = 2
    /\ last.data.changes[1] = [itemId |-> "i1", newPrice |-> Num(Rupees(185))]
    /\ last.data.changes[2].itemId = "i1"
    /\ last.data.changes[2].newPrice.num % Cent # 0
    /\ last.body.data.updated_count = 2
    /\ menu_items["i1"].base_price \in {Rupees(12) + 34 * Cent, Rupees(12) + 35 * Cent}

\* C12: a Cancel call, with an action id or without one, returns the
\* acknowledgment and leaves the catalog, the conversations, the messages,
\* the action records and every other table as they were.
C12_CancelIsNoOp ==
    [][last'.op = "Cancel" =>
          /\ last'.status = HTTP_200_OK
          /\ last'.raised = ""
          /\ last'.body = [success |-> TRUE,
                           data |-> [message |-> [template |-> "Action cancelled."]]]
          /\ UNCHANGED <<menu_items, conversations, messages, actions, sales>>]_vars

\* a Cancel call naming an action that was never issued has been served after
\* a conversation was opened and a price confirmed
C12_Witness ==
    /\ last.op = "Cancel"
    /\ "action_id" \in DOMAIN last.data
    /\ actions = {}
    /\ last.status = HTTP_200_OK
    /\ conversations # <<>>
    /\ messages # <<>>
    /\ menu_items["i1"].base_price = Rupees(185)

(***************************************************************************)
(* SpecSales: the sales query asked on any day of trading: any part of the *)
(* orders and of the invoices below is in the tables.                      *)
(***************************************************************************)
SalesInvoices ==
    InitialInvoices
    \cup {[id |-> "v4", restaurant |-> "r1", today |-> TRUE, status |-> "PAID",
           total_amount |-> Rupees(100) + Cent],
          [id |-> "v5", restaurant |-> "r1", today |-> FALSE, status |-> "PAID",
           total_amount |-> Rupees(70)]}

InitSales ==
    /\ menu_items = InitialMenu
    /\ conversations = <<>>
    /\ messages = <<>>
    /\ orders \in SUBSET InitialOrders
    /\ order_items = {oi \in InitialOrderItems : \E o \in orders : o.id = oi.order}
    /\ invoices \in SUBSET SalesInvoices
    /\ actions = {}
    /\ confirming = NoConfirm
    /\ payments = <<>>
    /\ recording = NoRecording
    /\ last = NoRequest

SalesHours == {9, 20}

DoParseSales == ParseStepOf(Users, {MsgSales}, {NoKey}, SalesHours, MaxSalesRows)

NextSales == DoParseSales

SpecSales == InitSales /\ [][NextSales]_vars

\* the orders of today that are completed or served, and the revenue of the
\* invoices of today that are paid, of the restaurant of the request l
OrdersCounted(l) ==
    {o \in orders : /\ o.restaurant = restaurant_of(l.user)
                    /\ o.today
                    /\ o.status = "COMPLETED" \/ o.status = "SERVED"}

RevenueCounted(l) ==
    LET paid == {v \in invoices : /\ v.restaurant = restaurant_of(l.user)
                                  /\ v.today
                                  /\ v.status = "PAID"}
    IN  SumOver([v \in paid |-> v.total_amount], paid)

\* C13: the sales query returns a response whatever the orders and the
\* invoices are: the average ticket it reports is 0 when no order of today is
\* completed or served, and otherwise the revenue of today's paid invoices
\* divided by the number of these orders, to the cent.
C13_AverageTicket ==
    Routed(last, "_handle_sales_query") =>
        LET n == Cardinality(OrdersCounted(last))
            revenue == RevenueCounted(last)
            told == last.body.data.message
        IN  /\ last.raised = ""
            /\ last.status = HTTP_200_OK
            /\ told.total_orders = n
            /\ told.total_revenue = revenue
            /\ n = 0 => told.avg_ticket = 0
            /\ n > 0 => /\ told.avg_ticket % Cent = 0
                        /\ 2 * (told.avg_ticket * n - revenue) <= n * Cent
                        /\ 2 * (revenue - told.avg_ticket * n) <= n * Cent

\* the sales query has answered for a restaurant with paid invoices of today
\* and no order served or completed today
C13_Witness ==
    /\ Routed(last, "_handle_sales_query")
    /\ OrdersCounted(last) = {}
    /\ RevenueCounted(last) > 0
    /\ last.status = HTTP_200_OK
    /\ last.body.data.message.avg_ticket = 0

\* the keys of the entities the extractor of a pattern produces
ExtractorKeys(extractor) ==
    CASE extractor \in {"unavailable", "available"} -> {"items", "available"}
      [] extractor \in {"INCREMENT", "DECREMENT"} ->
           {"target", "modifier", "value", "is_percentage"}
      [] extractor = "none" -> {}

\* C14: in a Parse call of a message that a pattern matches, the external
\* classifier is not consulted and the classification has the intent of the
\* first matching pattern, entities with the keys of its extractor and the
\* confidence 1.0, which is also what the log records; the classifier is
\* consulted when no pattern matches.  "mark lassi available", "increase
\* drinks by 20%" and "decrease lassi by 15" give the entities spelled out.
C14_MatcherBeforeFallback ==
    (last.op = "Parse" /\ last.status # HTTP_400_BAD_REQUEST) =>
        LET message == strip(last.data.message)
            hits == {k \in 1..Len(QUICK_PATTERNS) : PatternResults[message][k] # None}
            first == CHOOSE k \in hits : \A j \in hits : k <= j
            result == last.trace.result
            lassi == <<"l", "a", "s", "s", "i">>
        IN  /\ hits = {} => last.trace.gemini_called
            /\ hits # {} =>
                  /\ ~last.trace.gemini_called
                  /\ last.trace.gemini = NotConsulted
                  /\ result.intent = QUICK_PATTERNS[first].intent
                  /\ DOMAIN result.entities = ExtractorKeys(QUICK_PATTERNS[first].extractor)
                  /\ result.confidence = Scale
                  /\ last.trace.routed =>
                        \E k \in 1..Len(messages) :
                            /\ messages[k].role = "USER"
                            /\ messages[k].content = [text |-> message]
                            /\ messages[k].intent = result.intent
                            /\ messages[k].entities = result.entities
                            /\ messages[k].confidence = Scale
            /\ message = MsgMark =>
                   result.entities = [items |-> <<lassi>>, available |-> TRUE]
            /\ message = MsgIncrease =>
                   result.entities = [target |-> <<"d", "r", "i", "n", "k", "s">>,
                                      modifier |-> "INCREMENT", value |-> Rupees(20),
                                      is_percentage |-> TRUE]
            /\ message = MsgDecrease =>
                   result.entities = [target |-> lassi, modifier |-> "DECREMENT",
                                      value |-> Rupees(15), is_percentage |-> FALSE]
            /\ message \in {MsgSales, MsgTopSeller, MsgHello, MsgHelp} =>
                   result.entities = EmptyDict

\* "increase drinks by 20%" has been classified by the matcher alone and
\* logged with the confidence 1.0
C14_Witness ==
    /\ last.op = "Parse"
    /\ "message" \in DOMAIN last.data
    /\ last.data.message = MsgIncrease
    /\ ~last.trace.gemini_called
    /\ last.trace.result.confidence = Scale
    /\ last.trace.result.entities.is_percentage
    /\ messages # <<>>
    /\ messages[Len(messages)].content = [text |-> MsgIncrease]
    /\ messages[Len(messages)].confidence = Scale

\* the reply of the external classifier has the expected structure: an
\* object with an intent of the closed set and entities that are a mapping
WellFormed(reply) ==
    /\ IsDict(reply)
    /\ "intent" \in DOMAIN reply
    /\ reply.intent \in INTENTS
    /\ IsDict(Get(reply, "entities", EmptyDict))

\* C15: when the external classifier fails or replies with something that
\* has not the expected structure, the Parse call does not raise, the
\* classification it uses is UNKNOWN with confidence 0, and every intent in
\* the log is a member of the closed set.
C15_MalformedReplyDegrades ==
    /\ (/\ last.op = "Parse"
        /\ last.status # HTTP_400_BAD_REQUEST
        /\ last.trace.gemini_called
        /\ last.trace.gemini.api_key
        /\ last.trace.gemini.failed \/ ~WellFormed(last.trace.gemini.reply))
       => /\ last.raised = ""
          /\ IsDict(last.trace.result)
          /\ Get(last.trace.result, "intent", "UNKNOWN") = "UNKNOWN"
          /\ Get(last.trace.result, "confidence", 0) = 0
          /\ last.body.data.intent = "UNKNOWN"
    /\ \A k \in 1..Len(messages) : messages[k].intent \in INTENTS

\* the entities of the routed request l lack a key its handler requires
LacksRequiredKeys(l) ==
    \/ /\ Routed(l, "_handle_availability_toggle")
       /\ IsDict(EntitiesOf(l))
       /\ Get(EntitiesOf(l), "items", <<>>) = <<>>
    \/ /\ Routed(l, "_handle_price_update")
       /\ IsDict(EntitiesOf(l))
       /\ {"target", "value"} \ DOMAIN EntitiesOf(l) # {}

\* C16: a Parse call routed to the availability toggle without item-name
\* fragments, or to the price update without a target or without a value,
\* returns a response with requires_confirmation false and no preview (the
\* toggle's is its question) and leaves the catalog as it was.
C16_MissingKeysAsk ==
    [][LacksRequiredKeys(last') =>
          /\ last'.raised = ""
          /\ last'.status = HTTP_200_OK
          /\ last'.body.data.requires_confirmation = FALSE
          /\ "preview" \notin DOMAIN last'.body.data
          /\ Routed(last', "_handle_availability_toggle") =>
                 last'.body.data.message
                     = [template |-> "Which items would you like to update?"]
          /\ menu_items' = menu_items]_vars

\* C17: every message of the log has a confidence between 0 and 1 and the
\* conversation it names is exactly one row of the conversations.
C17_LogWellFormed ==
    \A k \in 1..Len(messages) :
        /\ messages[k].confidence >= 0
        /\ messages[k].confidence <= Scale
        /\ Cardinality({c \in 1..Len(conversations) :
                           conversations[c].id = messages[k].conversation}) = 1

(***************************************************************************)
(* SpecConcurrent: requests served by several workers.  Every statement    *)
(* the ORM sends is committed on its own (autocommit, no transaction.atomic *)
(* in the views), so another request can be served between two iterations  *)
(* of the loop of AIConfirmView.post; confirming holds the position of a   *)
(* Confirm inside that loop.  The toggle is one UPDATE statement and stays *)
(* one step.  The reader is the list of the catalog, MenuItemViewSet.      *)
(***************************************************************************)
MaxToggleRows == 2

ConcurrentEntries ==
    {[itemId |-> "i1", newPrice |-> Num(Rupees(185))],
     [itemId |-> "i2", newPrice |-> Num(Rupees(20))],
     [itemId |-> "xyz", newPrice |-> Num(Rupees(10))]}

\* AIConfirmView.post up to the loop: the 400 of an empty list, or the loop
\* entered at its first entry
ConfirmBegin(user, data, rounding) ==
    LET changes == Get(data, "changes", <<>>)
    IN  /\ ~confirming.running
        /\ IF ChangesMissing(changes)
           THEN /\ last' = Response("Confirm", user, data, HTTP_400_BAD_REQUEST,
                                    [error |-> "No changes to apply"], "", EmptyDict)
                /\ UNCHANGED confirming
           ELSE /\ confirming' = [running |-> TRUE, user |-> user, data |-> data,
                                  rounding |-> rounding, k |-> 1, updated |-> 0,
                                  before |-> menu_items]
                /\ UNCHANGED last
        /\ UNCHANGED <<menu_items, conversations, messages, sales, actions>>

\* one iteration of the loop: get, assign, save (committed), or the 500 of
\* an exception that leaves the loop
ConfirmSave ==
    LET changes == confirming.data.changes
        done == ApplyChanges(restaurant_of(confirming.user),
                             <<changes[confirming.k]>>, 1, menu_items, 0,
                             confirming.rounding)
        updated == confirming.updated + done.updated
    IN  /\ confirming.running
        /\ confirming.k <= Len(changes)
        /\ menu_items' = done.menu_items
        /\ IF done.raised # ""
           THEN /\ last' = Response("Confirm", confirming.user, confirming.data,
                                    HTTP_500_INTERNAL_SERVER_ERROR, EmptyDict,
                                    done.raised, ConfirmTrace(updated, confirming.before))
                /\ confirming' = NoConfirm
           ELSE /\ confirming' = [confirming EXCEPT !.k = @ + 1,
                                                    !.updated = updated]
                /\ UNCHANGED last
        /\ UNCHANGED <<conversations, messages, sales, actions>>

\* the response after the loop
ConfirmReturn ==
    /\ confirming.running
    /\ confirming.k > Len(confirming.data.changes)
    /\ last' = Response("Confirm", confirming.user, confirming.data, HTTP_200_OK,
                        [success |-> TRUE,
                         data |-> [updated_count |-> confirming.updated,
                                   message |-> [template |-> "Successfully updated {updated} item(s).",
                                                updated |-> confirming.updated]]],
                        "", ConfirmTrace(confirming.updated, confirming.before))
    /\ confirming' = NoConfirm
    /\ UNCHANGED <<menu_items, conversations, messages, sales, actions>>

\* MenuItemViewSet list: the rows of the caller's restaurant as they are
\* committed now; the trace keeps the Confirm that is inside its loop
List(user) ==
    LET queryset == {i \in DOMAIN menu_items :
                        menu_items[i].restaurant = restaurant_of(user)}
    IN  /\ last' = Response("List", user, EmptyDict, HTTP_200_OK,
                            [i \in queryset |-> menu_items[i]], "",
                            [during |-> confirming])
        /\ UNCHANGED <<menu_items, conversations, messages, sales, actions,
                       confirming>>

DoConfirmBegin ==
    \E user \in Users, data \in ConfirmRequests(ConcurrentEntries),
       rounding \in Roundings :
        ConfirmBegin(user, data, rounding)

DoConfirmSave == ConfirmSave

DoConfirmReturn == ConfirmReturn

DoList == \E user \in Users : List(user)

DoParseToggle ==
    ParseStepOf({"u1"}, {Msg86A, MsgMarkA}, {NoKey}, Hours, MaxToggleRows)

NextConcurrent ==
    DoConfirmBegin \/ DoConfirmSave \/ DoConfirmReturn \/ DoList \/ DoParseToggle

SpecConcurrent == Init /\ [][NextConcurrent]_vars

\* the price the batch of the running Confirm c gives item i: the newPrice
\* of the last entry naming it
BatchPrice(c, i) ==
    LET changes == c.data.changes
        named == {k \in 1..Len(changes) : changes[k].itemId = i}
        k == CHOOSE k \in named : \A j \in named : j <= k
    IN  Quantize(changes[k].newPrice.num, c.rounding)

\* the items the batch of the running Confirm c changes
BatchItems(c) ==
    {i \in DOMAIN c.before :
        /\ c.before[i].restaurant = restaurant_of(c.user)
        /\ \E k \in 1..Len(c.data.changes) : c.data.changes[k].itemId = i
        /\ BatchPrice(c, i) # c.before[i].base_price}

\* the rows read show some items of the batch of c with the new price and
\* others of it still with the old one
PartlyApplied(rows, c) ==
    \E i, j \in BatchItems(c) \cap DOMAIN rows :
        /\ rows[i].base_price = BatchPrice(c, i)
        /\ rows[j].base_price = c.before[j].base_price

\* C18: no reader of the catalog sees a batch partly applied: a list read
\* while a Confirm over several items is inside its loop shows either every
\* item of the batch with its new price or every one with its old price, and
\* an availability toggle changes all the items it matches in one step.
C18_BatchAllOrNothing ==
    /\ (last.op = "List" /\ last.trace.during.running)
           => ~PartlyApplied(last.body, last.trace.during)
    /\ (last.op = "Parse" /\ Toggled(last))
           => \A i \in DOMAIN menu_items :
                  (/\ menu_items[i].restaurant = restaurant_of(last.user)
                   /\ icontains(menu_items[i].name, <<"a">>))
                      => menu_items[i].is_available
                             = EntitiesOf(last).available

\* C19: a toggle sets the availability of exactly the items of the caller's
\* restaurant whose name contains one of the fragments, whatever the case of
\* the letters, and reports how many they are; a Confirm changes only items of
\* the caller's restaurant; neither changes an item of another restaurant.
C19_ScopedToRestaurant ==
    [][/\ (Toggled(last') /\ last'.raised = "") =>
            LET mine == restaurant_of(last'.user)
                fragments == EntitiesOf(last').items
                target == Get(EntitiesOf(last'), "available", FALSE)
                named == {i \in DOMAIN menu_items :
                             /\ menu_items[i].restaurant = mine
                             /\ \E k \in 1..Len(fragments) :
                                    Contains(lower(menu_items[i].name),
                                             lower(fragments[k]))}
            IN  /\ \A i \in named :
                       menu_items'[i] = [menu_items[i] EXCEPT !.is_available = target]
                /\ \A i \in DOMAIN menu_items \ named :
                       menu_items'[i] = menu_items[i]
                /\ last'.body.data.message.count = Cardinality(named)
       /\ last'.op = "Confirm" =>
            \A i \in DOMAIN menu_items :
                menu_items'[i] # menu_items[i]
                    => menu_items[i].restaurant = restaurant_of(last'.user)
       /\ DOMAIN menu_items' = DOMAIN menu_items]_vars

\* a user of r2 has confirmed a change that names Lassi of r1, after a user
\* of r1 made Lassi unavailable: the price of r1 is as it was and the Lassi of
\* r2 is still available
C19_Witness ==
    /\ last.op = "Confirm"
    /\ last.user = "u2"
    /\ last.status = HTTP_200_OK
    /\ \E k \in 1..Len(last.data.changes) : last.data.changes[k].itemId = "i1"
    /\ menu_items["i1"].base_price = Rupees(200)
    /\ ~menu_items["i1"].is_available
    /\ menu_items["i3"].is_available

(***************************************************************************)
(* SpecLog: Parse requests of both users, with text in capitals and text   *)
(* padded with blanks, a preview that fails after its USER message was     *)
(* written, and Cancel requests in between.                                *)
(***************************************************************************)
LogMessages == {MsgHelloPadded, MsgHelp86, MsgDecrease}

DoParseLogged == ParseStepOf(Users, LogMessages, {NoKey}, Hours, MaxMessages)

NextLog == DoParseLogged \/ DoCancel

SpecLog == Init /\ [][NextLog]_vars

\* the log before holds the first rows of the log after, in the same order
IsPrefix(before, after) ==
    /\ Len(before) <= Len(after)
    /\ \A k \in 1..Len(before) : after[k] = before[k]

\* C20: the log only grows at its end: every step keeps the messages written
\* before it as they are and in their order; a successful Parse call adds
\* exactly two messages of the conversation it returns, first the USER
\* message with the text as process_message received it, the resolved intent,
\* its confidence and its entities, then the ASSISTANT message with the text
\* of the response and the same intent; no other operation writes to the log.
C20_LogAppendOnly ==
    [][/\ IsPrefix(messages, messages')
       /\ (last'.op = "Parse" /\ last'.status = HTTP_200_OK) =>
            LET n == Len(messages)
                result == last'.trace.result
            IN  /\ Len(messages') = n + 2
                /\ messages'[n + 1].role = "USER"
                /\ messages'[n + 1].conversation = last'.body.data.conversation_id
                /\ messages'[n + 1].content = [text |-> strip(last'.data.message)]
                /\ messages'[n + 1].intent = Get(result, "intent", "UNKNOWN")
                /\ messages'[n + 1].confidence = Get(result, "confidence", 0)
                /\ messages'[n + 1].entities = Get(result, "entities", EmptyDict)
                /\ messages'[n + 2].role = "ASSISTANT"
                /\ messages'[n + 2].conversation = last'.body.data.conversation_id
                /\ messages'[n + 2].content = last'.body.data.message
                /\ messages'[n + 2].intent = messages'[n + 1].intent
       /\ last'.op # "Parse" => messages' = messages]_vars

\* a second successful Parse call has written its two messages behind the
\* two of an earlier call; the text logged keeps its capitals
C20_Witness ==
    /\ last.op = "Parse"
    /\ last.status = HTTP_200_OK
    /\ Len(messages) = 4
    /\ messages[1].content = [text |-> <<"H", "e", "l", "l", "o">>]
    /\ messages[2].role = "ASSISTANT"
    /\ messages[3].content = [text |-> MsgHelp86]
    /\ messages[3].intent = "MENU_AVAILABILITY_TOGGLE"
    /\ messages[4].role = "ASSISTANT"
    /\ messages[4].intent = "MENU_AVAILABILITY_TOGGLE"

\* the items of the restaurant of the caller of l whose name or category
\* name contains the target of l
C21_Matches(l) ==
    {i \in DOMAIN menu_items :
        /\ menu_items[i].restaurant = restaurant_of(l.user)
        /\ \/ Contains(lower(menu_items[i].name), lower(EntitiesOf(l).target))
           \/ Contains(lower(categories[menu_items[i].category].name),
                       lower(EntitiesOf(l).target))}

C22_ConversationLifecycle ==
    [][/\ IsPrefix(conversations, conversations')
       /\ (last'.op = "Parse" /\ last'.status # HTTP_400_BAD_REQUEST) =>
            LET supplied == "conversation_id" \in DOMAIN last'.data
                mine == restaurant_of(last'.user)
                appended == (Len(messages) + 1)..Len(messages')
            IN  /\ ~supplied =>
                       /\ Len(conversations') = Len(conversations) + 1
                       /\ conversations'[Len(conversations')].restaurant = mine
                       /\ conversations'[Len(conversations')].user = last'.user
                /\ supplied =>
                       /\ conversations' = conversations
                       /\ \A k \in appended :
                              /\ messages'[k].conversation = last'.data.conversation_id
                              /\ \E c \in 1..Len(conversations) :
                                     /\ conversations[c].id = last'.data.conversation_id
                                     /\ conversations[c].restaurant = mine
                /\ \A k \in appended :
                       \E c \in 1..Len(conversations') :
                           /\ conversations'[c].id = messages'[k].conversation
                           /\ conversations'[c].restaurant = mine
       /\ last'.op # "Parse" => conversations' = conversations]_vars

\* a user of r2 has named the conversation of r1 in a Parse call: the call
\* has created no conversation and the log holds the two messages of r1 alone
C22_Witness ==
    /\ last.op = "Parse"
    /\ last.user = "u2"
    /\ last.status # HTTP_400_BAD_REQUEST
    /\ "conversation_id" \in DOMAIN last.data
    /\ Len(conversations) = 1
    /\ conversations[1].id = last.data.conversation_id
    /\ conversations[1].restaurant = "r1"
    /\ Len(messages) = 2

(***************************************************************************)
(* SpecPrices: Parse requests of the price phrases.                        *)
(***************************************************************************)
DoParsePrice == ParseStepOf(Users, PriceMessages, {NoKey}, Hours, MaxPatternRows)

NextPrices == DoParsePrice

SpecPrices == Init /\ [][NextPrices]_vars

\* the first word of text
C23_Verb(text) ==
    LET blanks == {k \in 1..Len(text) : text[k] = " "}
        end == IF blanks = {} THEN Len(text) + 1
               ELSE CHOOSE k \in blanks : \A j \in blanks : k <= j
    IN  SubSeq(text, 1, end - 1)

C23_IncreaseVerbs ==
    {<<"i", "n", "c", "r", "e", "a", "s", "e">>, <<"r", "a", "i", "s", "e">>,
     <<"u", "p">>}

C23_DecreaseVerbs ==
    {<<"d", "e", "c", "r", "e", "a", "s", "e">>, <<"r", "e", "d", "u", "c", "e">>,
     <<"l", "o", "w", "e", "r">>, <<"d", "r", "o", "p">>}

\* C23: a price phrase is classified MENU_PRICE_UPDATE with the direction of
\* its verb, INCREMENT for increase, raise and up, DECREMENT for decrease,
\* reduce, lower and drop, with the number as value and is_percentage true
\* exactly when "%" follows the number: "increase burger by 20%" gives
\* burger, INCREMENT, 20.0, true, "decrease starters by 15" gives starters,
\* DECREMENT, 15.0, false, and "to" in the place of "by" gives the same.
C23_DirectionFromVerb ==
    (last.op = "Parse" /\ last.status # HTTP_400_BAD_REQUEST
        /\ last.data.message \in PriceMessages) =>
        LET text == lower(strip(last.data.message))
            result == last.trace.result
            entities == EntitiesOf(last)
        IN  /\ ~last.trace.gemini_called
            /\ result.intent = "MENU_PRICE_UPDATE"
            /\ C23_Verb(text) \in C23_IncreaseVerbs => entities.modifier = "INCREMENT"
            /\ C23_Verb(text) \in C23_DecreaseVerbs => entities.modifier = "DECREMENT"
            /\ entities.is_percentage <=> text[Len(text)] = "%"
            /\ last.data.message \in {MsgIncreaseBurger, MsgIncreaseBurgerTo} =>
                   entities = [target |-> <<"b", "u", "r", "g", "e", "r">>,
                               modifier |-> "INCREMENT", value |-> Rupees(20),
                               is_percentage |-> TRUE]
            /\ last.data.message = MsgDecreaseStarters =>
                   entities = [target |-> <<"s", "t", "a", "r", "t", "e", "r", "s">>,
                               modifier |-> "DECREMENT", value |-> Rupees(15),
                               is_percentage |-> FALSE]

(***************************************************************************)
(* SpecTop: the top-sellers query over every subset of orders that hold    *)
(* six item names for one restaurant, with equal quantities among them,    *)
(* and an order of the other restaurant that is completed today.           *)
(***************************************************************************)
TopOrders ==
    InitialOrders
    \cup {[id |-> "o6", restaurant |-> "r2", today |-> TRUE, status |-> "COMPLETED",
           covers |-> 2]}

TopOrderItems ==
    InitialOrderItems
    \cup {[id |-> "oi7", order |-> "o2", name |-> <<"D", "a", "l">>, quantity |-> 3, total_price |-> Rupees(240)],
          [id |-> "oi8", order |-> "o2", name |-> <<"N", "a", "a", "n">>, quantity |-> 4, total_price |-> Rupees(160)],
          [id |-> "oi9", order |-> "o1", name |-> <<"R", "o", "t", "i">>, quantity |-> 1, total_price |-> Rupees(20)],
          [id |-> "oi10", order |-> "o2", name |-> <<"R", "a", "i", "t", "a">>, quantity |-> 1, total_price |-> Rupees(60)],
          [id |-> "oi11", order |-> "o6", name |-> <<"L", "a", "s", "s", "i">>, quantity |-> 7, total_price |-> Rupees(350)],
          [id |-> "oi12", order |-> "o3", name |-> <<"N", "a", "a", "n">>, quantity |-> 6, total_price |-> Rupees(240)]}

InitTop ==
    /\ menu_items = InitialMenu
    /\ conversations = <<>>
    /\ messages = <<>>
    /\ orders \in SUBSET TopOrders
    /\ order_items = {oi \in TopOrderItems : \E o \in orders : o.id = oi.order}
    /\ invoices = InitialInvoices
    /\ actions = {}
    /\ confirming = NoConfirm
    /\ payments = <<>>
    /\ recording = NoRecording
    /\ last = NoRequest

DoParseTop == ParseStepOf(Users, {MsgTopSeller}, {NoKey}, Hours, MaxSalesRows)

NextTop == DoParseTop

SpecTop == InitTop /\ [][NextTop]_vars

\* the order items that count for the caller of l: of an order of the
\* caller's restaurant, of today, completed or served
C24_Sold(l) ==
    {oi \in order_items :
        \E o \in orders :
            /\ o.id = oi.order
            /\ o.restaurant = restaurant_of(l.user)
            /\ o.today
            /\ o.status = "COMPLETED" \/ o.status = "SERVED"}

C24_Quantity(l, name) ==
    LET rows == {oi \in C24_Sold(l) : oi.name = name}
    IN  SumOver([oi \in rows |-> oi.quantity], rows)

C24_Revenue(l, name) ==
    LET rows == {oi \in C24_Sold(l) : oi.name = name}
    IN  SumOver([oi \in rows |-> oi.total_price], rows)

\* C24: the top-sellers handler answers with the no-sales-data message when
\* no order item counts, and otherwise with a list of min(5, names) entries,
\* one per item name, each with the quantity and the revenue summed over the
\* order items that count, in non-increasing order of quantity, and no name
\* left out has sold more than a name listed.
C24_TopSellers ==
    Routed(last, "_handle_top_sellers") =>
        LET names == {oi.name : oi \in C24_Sold(last)}
            told == last.body.data.message
        IN  /\ last.raised = ""
            /\ last.status = HTTP_200_OK
            /\ names = {} =>
                   told = [template |-> "No sales data available for today yet."]
            /\ names # {} =>
                   LET list == told.items_list
                       listed == {list[k].name : k \in 1..Len(list)}
                   IN  /\ Len(list) = Min(5, Cardinality(names))
                       /\ Len(list) <= 5
                       /\ listed \subseteq names
                       /\ Cardinality(listed) = Len(list)
                       /\ \A k \in 1..Len(list) :
                              /\ list[k].qty = C24_Quantity(last, list[k].name)
                              /\ list[k].revenue = C24_Revenue(last, list[k].name)
                              /\ k < Len(list) => list[k].qty >= list[k + 1].qty
                       /\ \A n \in names \ listed :
                              C24_Quantity(last, n) <= list[Len(list)].qty

\* the handler has listed five of six names sold, while an order placed but
\* not served and an order of the other restaurant hold larger quantities
C24_Witness ==
    /\ Routed(last, "_handle_top_sellers")
    /\ last.user = "u1"
    /\ last.status = HTTP_200_OK
    /\ Cardinality({oi.name : oi \in C24_Sold(last)}) = 6
    /\ Len(last.body.data.message.items_list) = 5
    /\ last.body.data.message.items_list[1] = [name |-> <<"N", "a", "a", "n">>, qty |-> 4, revenue |-> Rupees(160)]
    /\ \E o \in orders : o.id = "o3"
    /\ \E o \in orders : o.id = "o6"

\* the rows of the log that belong to conversation c, in the order of the log
RECURSIVE C25_Turns(_, _)
C25_Turns(log, c) ==
    IF log = <<>> THEN <<>>
    ELSE IF log[1].conversation = c
         THEN <<log[1]>> \o C25_Turns(Tail(log), c)
         ELSE C25_Turns(Tail(log), c)

\* C25: between two requests the messages of every conversation alternate
\* USER, ASSISTANT: each USER message is followed at once by the ASSISTANT
\* message of its turn, with the same intent, and no conversation ends with a
\* USER message without a reply.
C25_EveryTurnAnswered ==
    \A c \in 1..Len(conversations) :
        LET turns == C25_Turns(messages, conversations[c].id)
        IN  /\ Len(turns) % 2 = 0
            /\ \A k \in 1..Len(turns) :
                   /\ turns[k].role = IF k % 2 = 1 THEN "USER" ELSE "ASSISTANT"
                   /\ k % 2 = 0 => turns[k].intent = turns[k - 1].intent

(***************************************************************************)
(* SpecLost: Confirm requests whose entries are those of previews computed *)
(* while Lassi cost 200 and Chai 15: Lassi decreased by 15, Lassi          *)
(* increased by 20, Chai increased by 5.  An entry is the dict of the      *)
(* preview (services.py:276-281), of which Confirm reads itemId and        *)
(* newPrice.                                                               *)
(***************************************************************************)
PreviewEntry(i, modifier, value, is_percentage) ==
    [itemId |-> i, itemName |-> InitialMenu[i].name,
     oldPrice |-> InitialMenu[i].base_price,
     newPrice |-> Num(Max(0, NewPrice(InitialMenu[i].base_price, modifier, value,
                                      is_percentage)))]

LostEntries ==
    {PreviewEntry("i1", "DECREMENT", Rupees(15), FALSE),
     PreviewEntry("i1", "INCREMENT", Rupees(20), FALSE),
     PreviewEntry("i2", "INCREMENT", Rupees(5), FALSE)}

DoConfirmPreviewed == ConfirmStep(LostEntries)

NextLost == DoConfirmPreviewed

SpecLost == Init /\ [][NextLost]_vars

\* the entries of the Confirm request l that name item i and come last for it
C26_LastNaming(l, i) ==
    {k \in 1..Len(l.data.changes) :
        /\ l.data.changes[k].itemId = i
        /\ \A j \in (k + 1)..Len(l.data.changes) : l.data.changes[j].itemId # i}

\* C26: a Confirm call applies every entry that names an item of the
\* caller's restaurant whatever price the catalog held for it when the call
\* began, the price of the preview or another: the item then costs the
\* newPrice of the last entry naming it, so what a Confirm before it had
\* applied to the item is lost and not composed with it.
C26_LastConfirmWins ==
    (last.op = "Confirm" /\ last.status = HTTP_200_OK) =>
        \A i \in DOMAIN menu_items :
            \A k \in C26_LastNaming(last, i) :
                LET change == last.data.changes[k]
                    found == last.trace.before[i]
                IN  menu_items[i].restaurant = restaurant_of(last.user) =>
                        /\ menu_items[i].base_price = change.newPrice.num
                        /\ found # change.oldPrice =>
                               menu_items[i].base_price
                                   # found + (change.newPrice.num - change.oldPrice)

\* a Confirm of the preview "increase by 20" taken at 200 has run after a
\* Confirm of the preview "decrease by 15" taken at 200 had brought Lassi to
\* 185: Lassi costs 220, not 205
C26_Witness ==
    /\ last.op = "Confirm"
    /\ last.user = "u1"
    /\ last.status = HTTP_200_OK
    /\ last.data.changes = <<PreviewEntry("i1", "INCREMENT", Rupees(20), FALSE)>>
    /\ last.trace.before["i1"] = Rupees(185)
    /\ menu_items["i1"].base_price = Rupees(220)

\* C27: a Confirm call that ends in an exception leaves every price of the
\* catalog as it was before the call, the prices of the items named by the
\* entries before the failing one included.
C27_FailedConfirmChangesNothing ==
    [][(last'.op = "Confirm" /\ last'.raised # "") =>
           \A i \in DOMAIN menu_items :
               menu_items'[i].base_price = menu_items[i].base_price]_vars

\* Confirm requests whose newPrice is at or below zero, with one above it
SignedEntries ==
    {[itemId |-> "i1", newPrice |-> Num(Rupees(185))],
     [itemId |-> "i2", newPrice |-> Num(0)],
     [itemId |-> "i2", newPrice |-> Num(-Rupees(5))]}

DoConfirmSigned == ConfirmStep(SignedEntries)

NextSigned == DoConfirmSigned

SpecSigned == Init /\ [][NextSigned]_vars

\* C28: the catalog starts with prices that are not below 0, and after any
\* sequence of calls every stored price is not below 0.
C28_PricesNonNegative ==
    \A i \in DOMAIN menu_items : menu_items[i].base_price >= 0

----------------------------------------------------------------------------
(***************************************************************************)
(* billing/views.py: PaymentViewSet.record.  The view reads the invoice,   *)
(* creates the payment and saves the invoice in three statements, each     *)
(* committed on its own; between them another worker may serve a request.  *)
(* recording[w] holds the request of worker w and the Invoice object it    *)
(* has read.                                                               *)
(***************************************************************************)
MaxPayments == 3

HTTP_201_CREATED == "201 Created"
HTTP_404_NOT_FOUND == "404 Not Found"

InvoiceUUIDs == {"v1", "v3", "v9"}
Methods == {"CASH", "CARD", "UPI", "WALLET", "OTHER"}

\* RecordPaymentSerializer.is_valid
RecordValid(data) ==
    /\ {"invoice_id", "amount", "method"} \subseteq DOMAIN data
    /\ data.invoice_id \in InvoiceUUIDs
    /\ "num" \in DOMAIN data.amount
    /\ data.amount.num % Cent = 0
    /\ data.method \in Methods

BillingInvoices ==
    {[id |-> "v1", restaurant |-> "r1", today |-> TRUE, status |-> "PENDING",
      total_amount |-> Rupees(500), paid_amount |-> 0],
     [id |-> "v3", restaurant |-> "r2", today |-> TRUE, status |-> "PENDING",
      total_amount |-> Rupees(120), paid_amount |-> 0]}

InitBilling ==
    /\ menu_items = InitialMenu
    /\ conversations = <<>>
    /\ messages = <<>>
    /\ orders = InitialOrders
    /\ order_items = InitialOrderItems
    /\ invoices = BillingInvoices
    /\ payments = <<>>
    /\ recording = NoRecording
    /\ actions = {}
    /\ confirming = NoConfirm
    /\ last = NoRequest

\* record up to Invoice.objects.get: the 400 of the serializer, the 404 of
\* an invoice that is not one of the caller's restaurant, or the object read
RecordGet(w, user, data) ==
    LET found == {v \in invoices : /\ v.id = data.invoice_id
                                   /\ v.restaurant = restaurant_of(user)}
    IN  /\ recording[w] = Idle
        /\ IF ~RecordValid(data)
           THEN /\ last' = Response("record", user, data, HTTP_400_BAD_REQUEST,
                                    EmptyDict, "", EmptyDict)
                /\ UNCHANGED recording
           ELSE IF found = {}
           THEN /\ last' = Response("record", user, data, HTTP_404_NOT_FOUND,
                                    [error |-> "Invoice not found"], "", EmptyDict)
                /\ UNCHANGED recording
           ELSE /\ recording' = [recording EXCEPT ![w] =
                                    [pc |-> "create", user |-> user, data |-> data,
                                     invoice |-> CHOOSE v \in found : TRUE]]
                /\ UNCHANGED last
        /\ UNCHANGED <<menu_items, conversations, messages, orders, order_items,
                       invoices, payments, actions, confirming>>

\* Payment.objects.create
RecordCreate(w) ==
    LET call == recording[w]
    IN  /\ call.pc = "create"
        /\ payments' = Append(payments,
                              [id |-> Len(payments) + 1,
                               restaurant |-> restaurant_of(call.user),
                               invoice |-> call.invoice.id,
                               amount |-> call.data.amount.num,
                               method |-> call.data.method,
                               received_by |-> call.user,
                               status |-> "COMPLETED"])
        /\ recording' = [recording EXCEPT ![w].pc = "save"]
        /\ UNCHANGED <<menu_items, conversations, messages, orders, order_items,
                       invoices, actions, confirming, last>>

\* the Invoice object after paid_amount += amount and the choice of status
Paid(invoice, amount) ==
    LET paid_amount == invoice.paid_amount + amount
    IN  [invoice EXCEPT !.paid_amount = paid_amount,
                        !.status = IF paid_amount >= invoice.total_amount
                                   THEN "PAID" ELSE "PARTIALLY_PAID"]

\* invoice.save(), which writes every field of the object read, and the
\* response
RecordSave(w) ==
    LET call == recording[w]
        saved == Paid(call.invoice, call.data.amount.num)
    IN  /\ call.pc = "save"
        /\ invoices' = {v \in invoices : v.id # saved.id} \cup {saved}
        /\ recording' = [recording EXCEPT ![w] = Idle]
        /\ last' = Response("record", call.user, call.data, HTTP_201_CREATED,
                            [success |-> TRUE], "", [invoice |-> saved])
        /\ UNCHANGED <<menu_items, conversations, messages, orders, order_items,
                       payments, actions, confirming>>

RecordRequests ==
    {[invoice_id |-> v, amount |-> Num(a), method |-> "CASH"] :
        v \in {"v1", "v9"}, a \in {Rupees(200), Rupees(300)}}
    \cup {[invoice_id |-> "v1", method |-> "CASH"]}

\* the requests in service and the payments made stay within MaxPayments
DoRecordGet ==
    \E w \in Workers, user \in Users, data \in RecordRequests :
        /\ Len(payments) + Cardinality({x \in Workers : recording[x] # Idle})
               < MaxPayments
        /\ RecordGet(w, user, data)

DoRecordCreate == \E w \in Workers : RecordCreate(w)

DoRecordSave == \E w \in Workers : RecordSave(w)

NextBilling == DoRecordGet \/ DoRecordCreate \/ DoRecordSave

SpecBilling == InitBilling /\ [][NextBilling]_vars

\* the sum of the amounts of the payments recorded for invoice v
C29_Recorded(v) ==
    LET rows == {k \in 1..Len(payments) : payments[k].invoice = v.id}
    IN  SumOver([k \in rows |-> payments[k].amount], rows)

\* C29: when no record-payment call is in service, the paid_amount of every
\* invoice is the sum of the amounts of the payments recorded for it, and an
\* invoice with payments is PAID exactly when its paid_amount has reached its
\* total_amount and PARTIALLY_PAID otherwise, however the calls interleaved.
C29_PaidIsSumOfPayments ==
    (\A w \in Workers : recording[w] = Idle) =>
        \A v \in invoices :
            /\ v.paid_amount = C29_Recorded(v)
            /\ (\E k \in 1..Len(payments) : payments[k].invoice = v.id) =>
                   /\ v.status = "PAID" <=> v.paid_amount >= v.total_amount
                   /\ v.status # "PAID" => v.status = "PARTIALLY_PAID"

----------------------------------------------------------------------------
(***************************************************************************)
(* orders/views.py: OrderViewSet.update_status and OrderViewSet.add_items. *)
(* An order row carries its status, whether completed_at is set, and its   *)
(* amounts; an order item row is the one of the sales queries.             *)
(***************************************************************************)
MaxAddedItems == 2

DefaultTaxRate == 5

\* total_price * (tax_rate / 100), exact in Decimal; a total_price of two
\* decimal places is a multiple of 100 units
TaxOn(total_price, tax_rate) == (total_price \div 100) * tax_rate

OrderStatuses ==
    {"DRAFT", "PLACED", "CONFIRMED", "PREPARING", "READY", "SERVED",
     "COMPLETED", "CANCELLED"}

OrderRows ==
    {[id |-> "o1", restaurant |-> "r1", today |-> TRUE, status |-> "COMPLETED",
      covers |-> 2, completed_at |-> TRUE, subtotal |-> Rupees(430),
      tax_amount |-> TaxOn(Rupees(430), DefaultTaxRate), discount_amount |-> 0,
      total_amount |-> Rupees(430) + TaxOn(Rupees(430), DefaultTaxRate)],
     [id |-> "o3", restaurant |-> "r1", today |-> TRUE, status |-> "PLACED",
      covers |-> 1, completed_at |-> FALSE, subtotal |-> Rupees(75),
      tax_amount |-> TaxOn(Rupees(75), DefaultTaxRate), discount_amount |-> 0,
      total_amount |-> Rupees(75) + TaxOn(Rupees(75), DefaultTaxRate)],
     [id |-> "o5", restaurant |-> "r2", today |-> TRUE, status |-> "CANCELLED",
      covers |-> 2, completed_at |-> TRUE, subtotal |-> Rupees(50),
      tax_amount |-> TaxOn(Rupees(50), DefaultTaxRate), discount_amount |-> 0,
      total_amount |-> Rupees(50) + TaxOn(Rupees(50), DefaultTaxRate)]}

OrderItemRows ==
    {r \in InitialOrderItems : r.order \in {o.id : o \in OrderRows}}

\* the ids of the order items that add_items creates, in order of creation
NewOrderItemIds == <<"oi21", "oi22", "oi23", "oi24">>

Added(rows) == Cardinality(rows) - Cardinality(OrderItemRows)

InitOrders ==
    /\ menu_items = InitialMenu
    /\ conversations = <<>>
    /\ messages = <<>>
    /\ orders = OrderRows
    /\ order_items = OrderItemRows
    /\ invoices = InitialInvoices
    /\ payments = <<>>
    /\ recording = NoRecording
    /\ actions = {}
    /\ confirming = NoConfirm
    /\ last = NoRequest

\* get_object over get_queryset: the order pk of the caller's restaurant
GetOrder(user, pk) ==
    {o \in orders : o.id = pk /\ o.restaurant = restaurant_of(user)}

UpdateStatus(user, pk, data) ==
    LET found == GetOrder(user, pk)
        order == CHOOSE o \in found : TRUE
        new_status == IF "status" \in DOMAIN data THEN data.status ELSE "None"
        saved == [order EXCEPT
                     !.status = new_status,
                     !.completed_at = IF new_status \in {"COMPLETED", "CANCELLED"}
                                      THEN TRUE ELSE order.completed_at]
    IN  /\ IF found = {}
           THEN /\ last' = Response("update_status", user, data, HTTP_404_NOT_FOUND,
                                    EmptyDict, "", [pk |-> pk])
                /\ UNCHANGED orders
           ELSE IF new_status \notin OrderStatuses
           THEN /\ last' = Response("update_status", user, data, HTTP_400_BAD_REQUEST,
                                    [error |-> "Invalid status"], "", [pk |-> pk])
                /\ UNCHANGED orders
           ELSE /\ orders' = (orders \ {order}) \cup {saved}
                /\ last' = Response("update_status", user, data, HTTP_200_OK,
                                    [success |-> TRUE], "", [pk |-> pk])
        /\ UNCHANGED <<menu_items, conversations, messages, order_items, invoices,
                       payments, recording, actions, confirming>>

\* the loop of add_items from item k of items_data on: the Order object, the
\* order item rows, and the exception that ended the loop, if one did
RECURSIVE AddLoop(_, _, _, _)
AddLoop(order, rows, items_data, k) ==
    IF k > Len(items_data)
    THEN [order |-> order, rows |-> rows, raised |-> ""]
    ELSE LET item_data == items_data[k]
         IN  IF item_data.menu_item_id \notin ItemIds
             THEN [order |-> order, rows |-> rows, raised |-> "DoesNotExist"]
             ELSE LET menu_item == menu_items[item_data.menu_item_id]
                      unit_price == menu_item.base_price
                      total_price == unit_price * item_data.quantity
                      order_item == [id |-> NewOrderItemIds[Added(rows) + 1],
                                     order |-> order.id,
                                     name |-> menu_item.name,
                                     quantity |-> item_data.quantity,
                                     total_price |-> total_price]
                  IN  AddLoop([order EXCEPT
                                  !.subtotal = @ + total_price,
                                  !.tax_amount = @ + TaxOn(total_price, DefaultTaxRate)],
                              rows \cup {order_item}, items_data, k + 1)

AddItems(user, pk, data) ==
    LET found == GetOrder(user, pk)
        order == CHOOSE o \in found : TRUE
        items_data == IF "items" \in DOMAIN data THEN data.items ELSE <<>>
        done == AddLoop(order, order_items, items_data, 1)
        saved == [done.order EXCEPT
                     !.total_amount = done.order.subtotal + done.order.tax_amount
                                          - done.order.discount_amount]
    IN  /\ IF found = {}
           THEN /\ last' = Response("add_items", user, data, HTTP_404_NOT_FOUND,
                                    EmptyDict, "", [pk |-> pk])
                /\ UNCHANGED <<orders, order_items>>
           ELSE IF order.status \in {"COMPLETED", "CANCELLED"}
           THEN /\ last' = Response("add_items", user, data, HTTP_400_BAD_REQUEST,
                                    [error |-> "Cannot add items to completed or cancelled order"],
                                    "", [pk |-> pk])
                /\ UNCHANGED <<orders, order_items>>
           ELSE IF done.raised # ""
           THEN /\ order_items' = done.rows
                /\ last' = Response("add_items", user, data, HTTP_500_INTERNAL_SERVER_ERROR,
                                    EmptyDict, done.raised, [pk |-> pk])
                /\ UNCHANGED orders
           ELSE /\ order_items' = done.rows
                /\ orders' = (orders \ {order}) \cup {saved}
                /\ last' = Response("add_items", user, data, HTTP_200_OK,
                                    [success |-> TRUE], "", [pk |-> pk])
        /\ UNCHANGED <<menu_items, conversations, messages, invoices, payments,
                       recording, actions, confirming>>

OrderPks == {o.id : o \in OrderRows}

StatusRequests ==
    {[status |-> s] : s \in {"PLACED", "COMPLETED", "CANCELLED", "REOPENED"}}
    \cup {EmptyDict}

ItemsRequests ==
    {[items |-> <<[menu_item_id |-> "i2", quantity |-> 1]>>],
     [items |-> <<[menu_item_id |-> "i1", quantity |-> 2],
                  [menu_item_id |-> "i9", quantity |-> 1]>>],
     [items |-> <<>>],
     EmptyDict}

DoUpdateStatus ==
    \E user \in Users, pk \in OrderPks, data \in StatusRequests :
        UpdateStatus(user, pk, data)

\* the order items added stay within MaxAddedItems
DoAddItems ==
    \E user \in Users, pk \in OrderPks, data \in ItemsRequests :
        /\ "items" \in DOMAIN data =>
               Added(order_items) + Len(data.items) <= MaxAddedItems
        /\ AddItems(user, pk, data)

NextOrders == DoUpdateStatus \/ DoAddItems

SpecOrders == InitOrders /\ [][NextOrders]_vars

\* the order items of order o among rows
C30_Items(o, rows) == {r \in rows : r.order = o.id}

\* C30: an order that has reached COMPLETED or CANCELLED (completed_at is
\* set exactly then, and never cleared) keeps, across every update_status
\* and add_items call, the order items and the subtotal, tax_amount and
\* total_amount it has, and stays COMPLETED or CANCELLED, the statuses in
\* which add_items is rejected.
C30_ClosedOrderStaysClosed ==
    [][\A o \in orders : o.completed_at =>
          \E p \in orders' :
              /\ p.id = o.id
              /\ C30_Items(p, order_items') = C30_Items(o, order_items)
              /\ p.subtotal = o.subtotal
              /\ p.tax_amount = o.tax_amount
              /\ p.total_amount = o.total_amount
              /\ p.status \in {"COMPLETED", "CANCELLED"}]_vars

=============================================================================
